---- MODULE Spec2Model ----
(***************************************************************************)
(* Verification model of the QuickJS-ng bridge: the reentrant execution    *)
(* gate of quickjs.Runtime (lock / unlock), the public operations that run *)
(* under it, and the guest-side handle table of the WASM bridge.           *)
(***************************************************************************)
EXTENDS Integers, Sequences, FiniteSets, TLC

\* ---------------------------------------------------------------- bounds
NG == 2        \* goroutines
NR == 2        \* Runtimes (each with its own Bridge / WASM instance)
MaxOps == 3    \* top-level public operations started, over all goroutines
MaxNest == 1   \* closures that call back into Eval, per call chain
\* capacity of the handle table (65536 in the source, scaled down)
MAX_JSVALUE_SLOTS == 4
\* bytes of the temporary arena (4 MiB in the source, scaled down)
ARENA_SIZE == 32
\* bits of size_t and uint32_t in the guest (32 in the source, scaled down)
SizeBits == 7
\* longest Go string passed to Context.String
MaxStr == 4
\* bytes Bridge.ToString reads at most (65536 in the source), scaled
READ_MAX == 3
\* width of Bridge.nextFuncID (32 in the source), scaled
FuncIDBits == 3
\* calls of NewCFunction that return an error
MaxFail == 1
\* guest functions made by Context.Function before they are called
MaxFn == 1
\* arguments of a guest call
MaxArgs == 2
\* address of the arena in the linear memory of the guest, scaled
ArenaBase == 8
\* Contexts made on one Runtime
MaxCtx == 2
\* jobs in the pending-job queue
MaxJobs == 4

Goroutines == 1..NG
Runtimes == 1..NR
\* the Runtime whose gate the goroutines of Spec contend for
GateRuntimes == {1}

VARIABLES
    mu,          \* Runtime.mu: 0 when free, else the goroutine that locked it
    lockMu,      \* Runtime.lockMu: 0 when free, else the goroutine holding it
    lockHolder,  \* Runtime.lockHolder: goroutine id of the owner (0 if unlocked)
    lockDepth,   \* Runtime.lockDepth
    counter,     \* guest global `counter` of the Runtime's Context
    hostCounter, \* counter captured by the host closure safeIncrement
    stack,       \* per goroutine: call stack of public operations / closures
    opsLeft,     \* top-level operations still to start
    incs,        \* per Runtime: increment evaluations started, on the guest
                 \* counter and through the host closure (history)
    incErrs,     \* per Runtime: increment evaluations that returned an error
    tab,         \* per WASM instance: jsvalue_slots, first_free_slot,
                 \* slots_initialized
    hist,        \* history of the handle table of instance 1: the live
                 \* handles, allocations minus releases while every release
                 \* was of a live handle, the kinds of other releases seen,
                 \* the last call
    arena_ptr,   \* per WASM instance: bump pointer of the temporary arena
    callbacks,   \* per Bridge: function ids registered in Bridge.callbacks
    nextFuncID,  \* per Bridge: Bridge.nextFuncID
    solo,        \* per Runtime: the instance state its own operations alone
                 \* produce (history)
    rd,          \* the last resolving call on instance 1 and what it saw
    api,         \* the last public operation on Runtime 1 and what it
                 \* returned; whether the guest has a pending exception
    alast,       \* the last call on the arena of instance 1 and what it
                 \* returned; whether a non-empty block was served at offset 0
    sio,         \* the last Context.String / Value.String on Runtime 1: the
                 \* Go string passed, the handle, the guest string made of
                 \* it, the Go string read back
    fns,         \* Bridge 1: the ids RegisterGoFunc returned, in order, the
                 \* ids that guest function objects refer to, the id each
                 \* goroutine inside Context.Function holds, the calls of
                 \* NewCFunction that failed
    cb,          \* Runtime 1: the ids carried by guest function objects and
                 \* the last guest call of one: its arguments, what the
                 \* closure saw, how often it ran, the handle and the value
                 \* the call produced
    jobs,        \* Runtime 1: the pending-job queue of the guest, the guest
                 \* variable `result` the reactions assign, the operations
                 \* that ran a job, the last Eval / ExecutePendingJobs and
                 \* what it returned
    gl,          \* Runtime 1: the ctxPtr of each Context made by NewContext,
                 \* the global bindings of each guest context
    hcg,         \* instance 1: the last host_call_go: the handles the guest
                 \* stored for the arguments, the argument handles the
                 \* closure holds when it returns, whether the words were
                 \* read, how often the closure ran, the handle returned,
                 \* whether the closure's allocations overwrote the words
    sync,        \* Bridge 1: the goroutine that holds callbackMu for writing,
                 \* the goroutines that hold it for reading, the goroutine
                 \* that holds Bridge.mu, Bridge.logFunc (a function or nil)
    ops,         \* instance 1: the last bridge operation that made several
                 \* arena allocations and the blocks it was given, in order
    xr,          \* the Values the host holds (the Runtime that issued each
                 \* and its handle), the guest global p of each Runtime, the
                 \* last SetGlobal: its Runtime, the Value passed, what
                 \* the guest loaded for it, whether it returned an error
    zv,          \* the Value `result` of each goroutine and where it is
                 \* from (its declaration, an Eval that failed, an Eval
                 \* that returned a value), and the last method that
                 \* returned at its nil check: its name, what it returned,
                 \* the text of its error, where its Value was from
    own          \* Runtime 1: the reference count of each heap value of
                 \* the guest, the strings made, the Value the host closure
                 \* keeps, the guest global x, whether a freed value was
                 \* released again, the last use of the kept Value

gateVars == <<mu, lockMu, lockHolder, lockDepth>>
progVars == <<mu, lockMu, lockHolder, lockDepth, counter, hostCounter, stack,
              opsLeft, incs, incErrs>>
tableVars == <<tab, hist>>
isoVars == <<arena_ptr, callbacks, nextFuncID, solo>>
extVars == <<cb, jobs, gl>>
lateVars == <<ops, own, xr, zv>>
moreVars == <<sync, hcg, lateVars>>
vars == <<mu, lockMu, lockHolder, lockDepth, counter, hostCounter, stack,
          opsLeft, incs, incErrs, tab, hist, arena_ptr, callbacks, nextFuncID,
          solo, rd, api, alast, sio, fns, cb, jobs, gl, sync, hcg, ops,
          own, xr, zv>>

\* ------------------------------------------------------- code fragments
\* Each Runtime value carries its own mu / lockMu / lockHolder / lockDepth.
GateOf(r) == r

BridgeOf_Shared(r) == 1
\* NewRuntimeWithContext: `b, err := bridge.New(ctx)`, one Bridge (one wazero
\* runtime, one module instance, one linear memory) per Runtime
BridgeOf(r) == r

\* The Go runtime's id of goroutine g (ids are positive and never reused).
GoId(g) == 9 * g + 1

RECURSIVE Digits(_)
Digits(n) == IF n < 10 THEN <<n>> ELSE Append(Digits(n \div 10), n % 10)

\* runtime.Stack writes "goroutine <id> [running]:..."; the model keeps the
\* bytes from offset 10 on: the decimal digits, then the space (-1).
StackHeader(g) == Digits(GoId(g)) \o <<-1>>

RECURSIVE ParseId(_, _, _)
ParseId(buf, i, id) ==
    IF i <= Len(buf) /\ buf[i] # -1
    THEN ParseId(buf, i + 1, id * 10 + buf[i])
    ELSE id

getGoroutineID_Zero(g) == 0

\* getGoroutineID(): `for i := 10; i < n && buf[i] != ' '; i++ { id = id*10 + ... }`
getGoroutineID(g) == ParseId(StackHeader(g), 1, 0)

IsOwner_Never(r, g) == FALSE

\* lock(): `if r.lockHolder == gid`
IsOwner(r, g) == lockHolder[GateOf(r)] = getGoroutineID(g)

DepthInc_None(d) == d

\* lock(): `r.lockDepth++`
DepthInc(d) == d + 1

MuFree_NoWait(r) == TRUE

\* lock(): r.mu.Lock() returns only when the mutex is free
MuFree(r) == mu[GateOf(r)] = 0

\* lock(): `r.lockDepth = 1`
AcquireDepth == 1

DepthDec_None(d) == d

\* unlock(): `r.lockDepth--`
DepthDec(d) == d - 1

UnlockReleases_OffByOne(d) == d = 1

\* unlock(): `if r.lockDepth == 0`
UnlockReleases(d) == d = 0

OpEntryPc_NoLock == "guest"

\* EvalFile: the first statement is `c.runtime.lock()`
OpEntryPc == "l_mu1"

AfterBridgeErr_NoUnlock == "ret"

\* EvalFile: `defer c.runtime.unlock()` also covers `return Value{}, err`
AfterBridgeErr == "u_mu"

\* checkException: `defer unlock` of the caller covers the exception return
AfterCheckException == "u_mu"

\* What the evaluated source does in the guest (chosen when the guest runs).
\*   inc  : `counter++`
\*   bad  : source that raises a guest exception (syntax error)
\*   fail : the bridge call itself returns an error
\*   cb   : `safeIncrement()`, a host closure that increments hostCounter
\*   nest : `safeEval(code)`, a host closure that calls ctx.Eval(code)

\* ------------------------------------------------------------- helpers
Top(g) == stack[g][Len(stack[g])]
WithTop(g, f) == [stack EXCEPT ![g] = [@ EXCEPT ![Len(@)] = f]]
Push(g, f, under) == [stack EXCEPT ![g] = Append([@ EXCEPT ![Len(@)] = under], f)]
AtPc(g, kind, pc) ==
    /\ stack[g] # <<>>
    /\ Top(g).kind = kind
    /\ Top(g).pc = pc

\* depth of the gate of r as seen by goroutine g
DepthOf(g, r) == IF lockHolder[GateOf(r)] = GoId(g) THEN lockDepth[GateOf(r)] ELSE 0

NestCount(g) == Cardinality({i \in 1..Len(stack[g]) :
                                stack[g][i].kind = "cb" /\ stack[g][i].src = "nest"})

OpFrame(g, r) ==
    [kind |-> "op", r |-> r, pc |-> OpEntryPc, src |-> "none",
     entry |-> DepthOf(g, r), tmp |-> 0, res |-> "none", nl |-> 0, nu |-> 0]

CbFrame(r, src) ==
    [kind |-> "cb", r |-> r, pc |-> "cb_run", src |-> src,
     entry |-> 0, tmp |-> 0, res |-> "none", nl |-> 0, nu |-> 0]

IsInc(src) == src \in {"inc", "cb"}

\* ===================================================================
\* Handle table (jsvalue_slots with an intrusive freelist)
\* ===================================================================
Slots == 0..(MAX_JSVALUE_SLOTS - 1)

\* guest values: zero-initialised static memory, JS_UNDEFINED, and payloads
JSVals == {"a", "b"}

\* `static JSValueSlot jsvalue_slots[...]; first_free_slot = 0; slots_initialized = 0`
StaticTable ==
    [value |-> [i \in Slots |-> "zero"],
     next_free |-> [i \in Slots |-> 0],
     first_free_slot |-> 0,
     slots_initialized |-> 0]

\* init_jsvalue_slots(): the loop covers i < MAX_JSVALUE_SLOTS - 1
init_jsvalue_slots(t) ==
    IF t.slots_initialized # 0 THEN t
    ELSE [value |-> [i \in Slots |-> IF i < MAX_JSVALUE_SLOTS - 1 THEN "undef" ELSE t.value[i]],
          next_free |-> [i \in Slots |-> IF i < MAX_JSVALUE_SLOTS - 1 THEN i + 1 ELSE 0],
          first_free_slot |-> 1,
          slots_initialized |-> 1]

PopNext_Stay(t, slot) == slot
\* store_jsvalue: `first_free_slot = jsvalue_slots[slot].next_free`
PopNext(t, slot) == t.next_free[slot]

store_jsvalue_NoCheck(t0, val) ==
    LET t == init_jsvalue_slots(t0)
        slot == t.first_free_slot
    IN [t |-> [t EXCEPT !.first_free_slot = PopNext(t, slot),
                        !.value[slot] = val,
                        !.next_free[slot] = 0],
        ret |-> slot]
\* store_jsvalue(val): the table afterwards and the handle returned
store_jsvalue(t0, val) ==
    LET t == init_jsvalue_slots(t0) IN
    IF t.first_free_slot = 0 THEN [t |-> t, ret |-> 0]
    ELSE LET slot == t.first_free_slot IN
         [t |-> [t EXCEPT !.first_free_slot = PopNext(t, slot),
                          !.value[slot] = val,
                          !.next_free[slot] = 0],
          ret |-> slot]

BadSlot_NoZero(slot) == slot >= MAX_JSVALUE_SLOTS
\* `if (slot == 0 || slot >= MAX_JSVALUE_SLOTS) return ...`
BadSlot(slot) == slot = 0 \/ slot >= MAX_JSVALUE_SLOTS

load_jsvalue_NoRange(t, slot) ==
    IF slot = 0 THEN "undef"
    ELSE IF slot \in Slots THEN t.value[slot] ELSE "fault"
\* load_jsvalue(slot); a read past the end of jsvalue_slots is a fault
load_jsvalue(t, slot) ==
    IF BadSlot(slot) THEN "undef"
    ELSE IF slot \in Slots THEN t.value[slot] ELSE "fault"

\* JS_IsUndefined, and JS_ToInt32 on the values of the model: undefined
\* converts to 0, the payloads are the int32 values 1 and 2
JS_IsUndefined(v) == IF v = "undef" THEN 1 ELSE 0
JS_ToInt32(v) ==
    CASE v = "a" -> 1 [] v = "b" -> 2 [] v = "c" -> 3 [] v = "d" -> 4
      [] OTHER -> 0

\* an entry point that resolves its handle argument and inspects the
\* value: the value it saw and the number it returns
ReadCall(fn, t, h) ==
    LET v == load_jsvalue(t, h)
    IN [fn |-> fn, h |-> h, val |-> v,
        rc |-> CASE fn = "load_jsvalue" -> 0
                 [] fn = "qjs_is_undefined" -> JS_IsUndefined(v)
                 [] fn = "qjs_to_int32" -> JS_ToInt32(v)]

free_jsvalue_slot_KeepValue(t, slot) ==
    IF BadSlot(slot) THEN t
    ELSE [t EXCEPT !.next_free[slot] = t.first_free_slot,
                   !.first_free_slot = slot]
\* free_jsvalue_slot(slot)
free_jsvalue_slot(t, slot) ==
    IF BadSlot(slot) THEN t
    ELSE [t EXCEPT !.value[slot] = "undef",
                   !.next_free[slot] = t.first_free_slot,
                   !.first_free_slot = slot]

\* ---------------------------------------------------- temporary arena
\* size_t arithmetic wraps at Word
Word == 2 ^ SizeBits

arena_alloc_NoAlign(a, size0) ==
    LET size == size0 % Word
        base == IF (a + size) % Word > ARENA_SIZE THEN 0 ELSE a
    IN [arena_ptr |-> (base + size) % Word, ptr |-> base, reset |-> base # a]
\* arena_alloc(size): the bump pointer afterwards, the offset of the block
\* returned, and whether the bump pointer was reset
arena_alloc(a, size0) ==
    LET size == (((size0 + 7) % Word) \div 8) * 8
        base == IF (a + size) % Word > ARENA_SIZE THEN 0 ELSE a
    IN [arena_ptr |-> (base + size) % Word, ptr |-> base, reset |-> base # a]

\* ------------------------------------------ one Bridge and its instance
\* bridge.New followed by qjs_new_runtime
InstanceInit ==
    [tab |-> init_jsvalue_slots(StaticTable), arena_ptr |-> 0,
     callbacks |-> {}, nextFuncID |-> 1]

\* &arena[off]: the address of the arena byte at offset off, as a uint32_t
ArenaAddr_Zero(off) == off % Word

ArenaAddr(off) == (ArenaBase + off) % Word

\* Bridge.Alloc(size) -> qjs_alloc; `if ptr == 0 { return 0, errors.New(...) }`
Alloc(I, size) ==
    LET blk == arena_alloc(I.arena_ptr, size)
    IN [I |-> [I EXCEPT !.arena_ptr = blk.arena_ptr],
        ret |-> ArenaAddr(blk.ptr), err |-> ArenaAddr(blk.ptr) = 0]

\* Bridge.WriteString(s): Alloc(uint32(len(s) + 1))
WriteString(I, len) == Alloc(I, (len + 1) % Word)

StoreIn(I, val) ==
    LET st == store_jsvalue(I.tab, val)
    IN [I |-> [I EXCEPT !.tab = st.t], ret |-> st.ret]

\* Bridge.NewInt32 -> qjs_new_int32
NewInt32(I, val) == StoreIn(I, val)

\* Bridge.NewString -> WriteString, qjs_new_string
NewString(I, len) == StoreIn(WriteString(I, len).I, "s")

\* Bridge.NewCFunction -> WriteString(name), qjs_new_c_function
NewCFunction(I, len) == StoreIn(WriteString(I, len).I, "f")

\* values of Bridge.nextFuncID (uint32 in the source)
FuncWord == 2 ^ FuncIDBits

\* Bridge.RegisterGoFunc: `funcID := b.nextFuncID; b.nextFuncID++`
RegisterGoFunc(I) ==
    [I |-> [I EXCEPT !.callbacks = @ \cup {I.nextFuncID},
                     !.nextFuncID = (@ + 1) % FuncWord],
     ret |-> I.nextFuncID]

\* Bridge.UnregisterGoFunc: `delete(b.callbacks, funcID)`
UnregisterGoFunc(I, funcID) == [I EXCEPT !.callbacks = @ \ {funcID}]

\* ------------------------------------------------ strings as bytes
\* byte values of a Go string: NUL and two letters
Bytes == {0, 97, 98}

\* Go strings passed to Context.String
Strings == UNION {[1..n -> Bytes] : n \in 0..MaxStr}

\* bytes.IndexByte(buf, c)
IndexByte(buf, c) ==
    IF \E i \in 1..Len(buf) : buf[i] = c
    THEN (CHOOSE i \in 1..Len(buf) :
              buf[i] = c /\ \A j \in 1..(i - 1) : buf[j] # c) - 1
    ELSE -1

\* Bridge.WriteString: the bytes written to guest memory, `append(buf, 0)`
WriteData(s) == Append(s, 0)

\* JS_NewString(ctx, str): the C string at str, up to its terminator
JS_NewString(cstr) == SubSeq(cstr, 1, IndexByte(cstr, 0))

\* JS_ToCString of the value in a slot: the bytes of a string and the
\* terminator; undefined converts to "undefined"
JS_ToCString(v, bytes) ==
    IF v = "s" THEN Append(bytes, 0)
    ELSE <<117, 110, 100, 101, 102, 105, 110, 101, 100, 0>>

\* memory.Read(ptr, maxLen): maxLen bytes from ptr on, whatever follows the
\* C string in guest memory included
MemRead(cstr, after, maxLen) ==
    [i \in 1..maxLen |-> IF i <= Len(cstr) THEN cstr[i] ELSE after]

\* Bridge.ReadCString(ptr, maxLen)
ReadCString_NoCut(buf) == buf

ReadCString(buf) ==
    IF IndexByte(buf, 0) >= 0 THEN SubSeq(buf, 1, IndexByte(buf, 0)) ELSE buf

\* Bridge.ToString: qjs_to_cstring, ReadCString(strPtr, 65536)
Bridge_ToString(t, h, bytes, after) ==
    ReadCString(MemRead(JS_ToCString(load_jsvalue(t, h), bytes), after,
                        READ_MAX))


\* handles a caller may pass to a release: any 32-bit word; the model takes
\* every slot index and the first word past the table
Handles == 0..MAX_JSVALUE_SLOTS

NoCall == [op |-> "none", ret |-> 0, head |-> 0, wasLive |-> FALSE]

\* the handle table of instance 1 as NewRuntimeWithContext leaves it
\* (qjs_new_runtime calls init_jsvalue_slots)
HistInit == [live |-> {}, bal |-> 0, odd |-> {}, last |-> NoCall]

\* the kind of a release that is not the release of a live handle
OddRelease(h, live) ==
    IF h \in live THEN {}
    ELSE IF h = 0 THEN {"zero"}
    ELSE IF h >= MAX_JSVALUE_SLOTS THEN {"range"}
    ELSE {"again"}


\* ------------------------------------------------- Values of the host
\* Value{}: the zero Value, `ctx` nil and `ptr` 0
ZeroValue == [ctx |-> 0, ptr |-> 0]

\* ------------------------------------------- references of the guest
\* heap values (strings) the guest can make
MaxObj == 2

ObjName(n) == <<"s1", "s2", "s3", "s4">>[n]

Objs == {ObjName(n) : n \in 1..MaxObj}

OwnInit ==
    [rc |-> [o \in Objs |-> 0], made |-> 0, cached |-> 0, x |-> "undef",
     twice |-> FALSE,
     last |-> [op |-> "none", h |-> 0, val |-> "undef", live |-> TRUE,
               out |-> "none"]]

Init ==
    /\ mu = [r \in Runtimes |-> 0]
    /\ lockMu = [r \in Runtimes |-> 0]
    /\ lockHolder = [r \in Runtimes |-> 0]
    /\ lockDepth = [r \in Runtimes |-> 0]
    /\ counter = [r \in Runtimes |-> 0]
    /\ hostCounter = [r \in Runtimes |-> 0]
    /\ stack = [g \in Goroutines |-> <<>>]
    /\ opsLeft = MaxOps
    /\ incs = [r \in Runtimes |-> [guest |-> 0, host |-> 0]]
    /\ incErrs = [r \in Runtimes |-> 0]
    /\ tab = [b \in Runtimes |-> init_jsvalue_slots(StaticTable)]
    /\ hist = HistInit
    /\ arena_ptr = [b \in Runtimes |-> 0]
    /\ callbacks = [b \in Runtimes |-> {}]
    /\ nextFuncID = [b \in Runtimes |-> 1]
    /\ solo = [r \in Runtimes |-> InstanceInit]
    /\ rd = [fn |-> "none", h |-> 0, val |-> "undef", rc |-> 0]
    /\ api = [op |-> "none", ptr |-> 0, err |-> FALSE, full |-> FALSE,
              pending |-> FALSE, len |-> 0, res |-> "undef", thrown |-> "its",
              msg |-> "", marker |-> FALSE, hnd |-> 0, ex |-> 0, code |-> 0]
    /\ alast = [op |-> "none", size |-> 0, ptr |-> 0, before |-> 0,
             reset |-> FALSE, zero |-> FALSE, zeroBefore |-> FALSE]
    /\ sio = [op |-> "none", s |-> <<>>, h |-> 0, val |-> <<>>, out |-> <<>>]
    /\ fns = [rets |-> <<>>, refs |-> {}, pend |-> [g \in Goroutines |-> <<>>],
              fails |-> 0]
    /\ cb = [objs |-> {}, op |-> "none", id |-> 0, known |-> FALSE,
             argv |-> <<>>, seen |-> <<>>, calls |-> 0, ret |-> 0,
             val |-> "undef", err |-> FALSE]
    /\ jobs = [queue |-> <<>>, result |-> "undef", by |-> {},
               last |-> [op |-> "none", n |-> 0, err |-> FALSE, ran |-> 0,
                         left |-> 0, failed |-> FALSE, res |-> "undef"]]
    /\ gl = [ctxs |-> <<>>, globals |-> [p \in 1..MaxCtx |-> "undef"],
             own |-> [c \in 1..MaxCtx |-> "undef"],
             last |-> [op |-> "none", c |-> 0, res |-> "undef"]]
    /\ ops = [op |-> "none", blocks |-> <<>>]
    /\ own = OwnInit
    /\ zv = [val |-> [g \in Goroutines |-> ZeroValue],
             from |-> [g \in Goroutines |-> "var"],
             last |-> [m |-> "none", ret |-> "none", err |-> "",
                       from |-> "var"]]
    /\ xr = [vals |-> {}, p |-> [r \in Runtimes |-> "undef"],
             last |-> [op |-> "none", rt |-> 0, val |-> [rt |-> 0, ptr |-> 0],
                       loaded |-> "none", set |-> FALSE, err |-> FALSE]]
    /\ hcg = [op |-> "none", ptrs |-> <<>>, args |-> <<>>, ok |-> TRUE,
              calls |-> 0, ret |-> 0, over |-> FALSE]
    /\ sync = [callbackMu |-> [w |-> 0, r |-> {}], mu |-> 0, logFunc |-> "print"]

\* ---------------------------------------------------- public operation
\* A goroutine calls Context.Eval / EvalFile on a Context of Runtime r.
Call(g) ==
    /\ stack[g] = <<>>
    /\ opsLeft > 0
    /\ \E r \in GateRuntimes :
          stack' = [stack EXCEPT ![g] = <<OpFrame(g, r)>>]
    /\ opsLeft' = opsLeft - 1
    /\ UNCHANGED <<gateVars, counter, hostCounter, incs, incErrs>>

\* -------------------------------------------------------------- lock()
\* r.lockMu.Lock()
LockMu1(g) ==
    /\ AtPc(g, "op", "l_mu1")
    /\ lockMu[GateOf(Top(g).r)] = 0
    /\ lockMu' = [lockMu EXCEPT ![GateOf(Top(g).r)] = g]
    /\ stack' = WithTop(g, [Top(g) EXCEPT !.pc = "l_chk"])
    /\ UNCHANGED <<mu, lockHolder, lockDepth, counter, hostCounter, opsLeft, incs, incErrs>>

\* if r.lockHolder == gid
LockChk(g) ==
    /\ AtPc(g, "op", "l_chk")
    /\ stack' = WithTop(g, [Top(g) EXCEPT !.pc =
                   IF IsOwner(Top(g).r, g) THEN "l_inc" ELSE "l_rel1"])
    /\ UNCHANGED <<gateVars, counter, hostCounter, opsLeft, incs, incErrs>>

\* r.lockDepth++
LockInc(g) ==
    /\ AtPc(g, "op", "l_inc")
    /\ lockDepth' = [lockDepth EXCEPT ![GateOf(Top(g).r)] = DepthInc(@)]
    /\ stack' = WithTop(g, [Top(g) EXCEPT !.pc = "l_relF"])
    /\ UNCHANGED <<mu, lockMu, lockHolder, counter, hostCounter, opsLeft, incs, incErrs>>

\* r.lockMu.Unlock(); return
LockRelFast(g) ==
    /\ AtPc(g, "op", "l_relF")
    /\ lockMu' = [lockMu EXCEPT ![GateOf(Top(g).r)] = 0]
    /\ stack' = WithTop(g, [Top(g) EXCEPT !.pc = "guest", !.nl = @ + 1])
    /\ UNCHANGED <<mu, lockHolder, lockDepth, counter, hostCounter, opsLeft, incs, incErrs>>

\* r.lockMu.Unlock() on the slow path
LockRel1(g) ==
    /\ AtPc(g, "op", "l_rel1")
    /\ lockMu' = [lockMu EXCEPT ![GateOf(Top(g).r)] = 0]
    /\ stack' = WithTop(g, [Top(g) EXCEPT !.pc = "l_mu"])
    /\ UNCHANGED <<mu, lockHolder, lockDepth, counter, hostCounter, opsLeft, incs, incErrs>>

\* r.mu.Lock()
LockMu(g) ==
    /\ AtPc(g, "op", "l_mu")
    /\ MuFree(Top(g).r)
    /\ mu' = [mu EXCEPT ![GateOf(Top(g).r)] = g]
    /\ stack' = WithTop(g, [Top(g) EXCEPT !.pc = "l_mu2"])
    /\ UNCHANGED <<lockMu, lockHolder, lockDepth, counter, hostCounter, opsLeft, incs, incErrs>>

\* r.lockMu.Lock() after the mutex was acquired
LockMu2(g) ==
    /\ AtPc(g, "op", "l_mu2")
    /\ lockMu[GateOf(Top(g).r)] = 0
    /\ lockMu' = [lockMu EXCEPT ![GateOf(Top(g).r)] = g]
    /\ stack' = WithTop(g, [Top(g) EXCEPT !.pc = "l_setH"])
    /\ UNCHANGED <<mu, lockHolder, lockDepth, counter, hostCounter, opsLeft, incs, incErrs>>

\* r.lockHolder = gid
LockSetH(g) ==
    /\ AtPc(g, "op", "l_setH")
    /\ lockHolder' = [lockHolder EXCEPT ![GateOf(Top(g).r)] = getGoroutineID(g)]
    /\ stack' = WithTop(g, [Top(g) EXCEPT !.pc = "l_setD"])
    /\ UNCHANGED <<mu, lockMu, lockDepth, counter, hostCounter, opsLeft, incs, incErrs>>

\* r.lockDepth = 1
LockSetD(g) ==
    /\ AtPc(g, "op", "l_setD")
    /\ lockDepth' = [lockDepth EXCEPT ![GateOf(Top(g).r)] = AcquireDepth]
    /\ stack' = WithTop(g, [Top(g) EXCEPT !.pc = "l_rel2"])
    /\ UNCHANGED <<mu, lockMu, lockHolder, counter, hostCounter, opsLeft, incs, incErrs>>

\* r.lockMu.Unlock(); lock() returns
LockRel2(g) ==
    /\ AtPc(g, "op", "l_rel2")
    /\ lockMu' = [lockMu EXCEPT ![GateOf(Top(g).r)] = 0]
    /\ stack' = WithTop(g, [Top(g) EXCEPT !.pc = "guest", !.nl = @ + 1])
    /\ UNCHANGED <<mu, lockHolder, lockDepth, counter, hostCounter, opsLeft, incs, incErrs>>

\* ------------------------------------------------- guest entry point
\* JS_Eval of `counter++`: read the global ...
GuestRead(g) ==
    /\ AtPc(g, "op", "guest")
    /\ stack' = WithTop(g, [Top(g) EXCEPT !.pc = "g_wr", !.src = "inc",
                                          !.tmp = counter[Top(g).r]])
    /\ incs' = [incs EXCEPT ![Top(g).r].guest = @ + 1]
    /\ UNCHANGED <<gateVars, counter, hostCounter, opsLeft, incErrs>>

\* ... and write it back incremented; qjs_eval returns the result handle
GuestWrite(g) ==
    /\ AtPc(g, "op", "g_wr")
    /\ counter' = [counter EXCEPT ![Top(g).r] = Top(g).tmp + 1]
    /\ stack' = WithTop(g, [Top(g) EXCEPT !.pc = "chk", !.res = "ok"])
    /\ UNCHANGED <<gateVars, hostCounter, opsLeft, incs, incErrs>>

\* JS_Eval raises an exception; qjs_eval returns the exception marker
GuestThrow(g) ==
    /\ AtPc(g, "op", "guest")
    /\ stack' = WithTop(g, [Top(g) EXCEPT !.pc = "chk", !.src = "bad", !.res = "exc"])
    /\ UNCHANGED <<gateVars, counter, hostCounter, opsLeft, incs, incErrs>>

\* bridge.Eval returns err != nil: `return Value{}, err`
BridgeFail(g) ==
    /\ AtPc(g, "op", "guest")
    /\ stack' = WithTop(g, [Top(g) EXCEPT !.pc = AfterBridgeErr, !.src = "fail", !.res = "err"])
    /\ UNCHANGED <<gateVars, counter, hostCounter, opsLeft, incs, incErrs>>

\* go_callback_wrapper -> host_call_go -> Bridge.hostCallGo -> bridgeFn,
\* which calls c.undefinedUnlocked() and then the user closure fn
GuestCallsHost(g) ==
    /\ AtPc(g, "op", "guest")
    /\ \E src \in {"cb", "nest"} :
          /\ src = "nest" => NestCount(g) < MaxNest
          /\ stack' = Push(g, CbFrame(Top(g).r, IF src = "cb" THEN "hinc" ELSE "nest"),
                           [Top(g) EXCEPT !.pc = "in_cb", !.src = src])
          /\ incs' = [incs EXCEPT ![Top(g).r].host = IF src = "cb" THEN @ + 1 ELSE @]
    /\ UNCHANGED <<gateVars, counter, hostCounter, opsLeft, incErrs>>

\* closure safeIncrement: counter++ on the captured host variable (read)
ClosureRead(g) ==
    /\ AtPc(g, "cb", "cb_run")
    /\ Top(g).src = "hinc"
    /\ stack' = WithTop(g, [Top(g) EXCEPT !.pc = "cb_wr", !.tmp = hostCounter[Top(g).r]])
    /\ UNCHANGED <<gateVars, counter, hostCounter, opsLeft, incs, incErrs>>

\* closure safeIncrement: write back
ClosureWrite(g) ==
    /\ AtPc(g, "cb", "cb_wr")
    /\ hostCounter' = [hostCounter EXCEPT ![Top(g).r] = Top(g).tmp + 1]
    /\ stack' = WithTop(g, [Top(g) EXCEPT !.pc = "cb_ret"])
    /\ UNCHANGED <<gateVars, counter, opsLeft, incs, incErrs>>

\* closure safeEval: `result, err := ctx.Eval(code)` on the same Context
ClosureEval(g) ==
    /\ AtPc(g, "cb", "cb_run")
    /\ Top(g).src = "nest"
    /\ stack' = Push(g, OpFrame(g, Top(g).r), [Top(g) EXCEPT !.pc = "cb_wait"])
    /\ UNCHANGED <<gateVars, counter, hostCounter, opsLeft, incs, incErrs>>

\* bridgeFn returns result.ptr; go_callback_wrapper returns to the guest,
\* whose evaluation completes
ClosureReturn(g) ==
    /\ AtPc(g, "cb", "cb_ret")
    /\ LET n == Len(stack[g]) IN
         stack' = [stack EXCEPT ![g] =
                     [SubSeq(@, 1, n - 1) EXCEPT ![n - 1] =
                         [@ EXCEPT !.pc = "chk", !.res = "ok"]]]
    /\ UNCHANGED <<gateVars, counter, hostCounter, opsLeft, incs, incErrs>>

\* Context.checkException: IsException, then GetException / GetErrorMessage /
\* FreeValue and `return Value{}, errors.New(errMsg)`
CheckException(g) ==
    /\ AtPc(g, "op", "chk")
    /\ stack' = WithTop(g, [Top(g) EXCEPT
                    !.pc = IF Top(g).res = "exc" THEN AfterCheckException ELSE "u_mu",
                    !.res = IF @ = "exc" THEN "jserr" ELSE @])
    /\ UNCHANGED <<gateVars, counter, hostCounter, opsLeft, incs, incErrs>>

\* ------------------------------------------------------------ unlock()
\* the deferred c.runtime.unlock() runs: r.lockMu.Lock()
UnlockMu1(g) ==
    /\ AtPc(g, "op", "u_mu")
    /\ lockMu[GateOf(Top(g).r)] = 0
    /\ lockMu' = [lockMu EXCEPT ![GateOf(Top(g).r)] = g]
    /\ stack' = WithTop(g, [Top(g) EXCEPT !.pc = "u_dec", !.nu = @ + 1])
    /\ UNCHANGED <<mu, lockHolder, lockDepth, counter, hostCounter, opsLeft, incs, incErrs>>

\* r.lockDepth--
UnlockDec(g) ==
    /\ AtPc(g, "op", "u_dec")
    /\ lockDepth' = [lockDepth EXCEPT ![GateOf(Top(g).r)] = DepthDec(@)]
    /\ stack' = WithTop(g, [Top(g) EXCEPT !.pc = "u_chk"])
    /\ UNCHANGED <<mu, lockMu, lockHolder, counter, hostCounter, opsLeft, incs, incErrs>>

\* if r.lockDepth == 0
UnlockChk(g) ==
    /\ AtPc(g, "op", "u_chk")
    /\ stack' = WithTop(g, [Top(g) EXCEPT !.pc =
                   IF UnlockReleases(lockDepth[GateOf(Top(g).r)]) THEN "u_clr" ELSE "u_relN"])
    /\ UNCHANGED <<gateVars, counter, hostCounter, opsLeft, incs, incErrs>>

\* r.lockHolder = 0
UnlockClr(g) ==
    /\ AtPc(g, "op", "u_clr")
    /\ lockHolder' = [lockHolder EXCEPT ![GateOf(Top(g).r)] = 0]
    /\ stack' = WithTop(g, [Top(g) EXCEPT !.pc = "u_rel0"])
    /\ UNCHANGED <<mu, lockMu, lockDepth, counter, hostCounter, opsLeft, incs, incErrs>>

\* r.lockMu.Unlock() before releasing the mutex
UnlockRel0(g) ==
    /\ AtPc(g, "op", "u_rel0")
    /\ lockMu' = [lockMu EXCEPT ![GateOf(Top(g).r)] = 0]
    /\ stack' = WithTop(g, [Top(g) EXCEPT !.pc = "u_muU"])
    /\ UNCHANGED <<mu, lockHolder, lockDepth, counter, hostCounter, opsLeft, incs, incErrs>>

\* r.mu.Unlock(); unlock() returns
UnlockMuU(g) ==
    /\ AtPc(g, "op", "u_muU")
    /\ mu' = [mu EXCEPT ![GateOf(Top(g).r)] = 0]
    /\ stack' = WithTop(g, [Top(g) EXCEPT !.pc = "ret"])
    /\ UNCHANGED <<lockMu, lockHolder, lockDepth, counter, hostCounter, opsLeft, incs, incErrs>>

\* else branch: r.lockMu.Unlock(); unlock() returns
UnlockRelN(g) ==
    /\ AtPc(g, "op", "u_relN")
    /\ lockMu' = [lockMu EXCEPT ![GateOf(Top(g).r)] = 0]
    /\ stack' = WithTop(g, [Top(g) EXCEPT !.pc = "ret"])
    /\ UNCHANGED <<mu, lockHolder, lockDepth, counter, hostCounter, opsLeft, incs, incErrs>>

\* the public operation returns to its caller (the closure, or the goroutine)
Return(g) ==
    /\ AtPc(g, "op", "ret")
    /\ LET n == Len(stack[g]) IN
         stack' = [stack EXCEPT ![g] =
                     IF n = 1 THEN <<>>
                     ELSE [SubSeq(@, 1, n - 1) EXCEPT ![n - 1] = [@ EXCEPT !.pc = "cb_ret"]]]
    /\ incErrs' = [incErrs EXCEPT ![Top(g).r] =
                     IF IsInc(Top(g).src) /\ Top(g).res # "ok" THEN @ + 1 ELSE @]
    /\ UNCHANGED <<gateVars, counter, hostCounter, opsLeft, incs>>

Step(g) ==
    \/ Call(g)
    \/ LockMu1(g) \/ LockChk(g) \/ LockInc(g) \/ LockRelFast(g) \/ LockRel1(g)
    \/ LockMu(g) \/ LockMu2(g) \/ LockSetH(g) \/ LockSetD(g) \/ LockRel2(g)
    \/ GuestRead(g) \/ GuestWrite(g) \/ GuestThrow(g) \/ BridgeFail(g)
    \/ GuestCallsHost(g) \/ ClosureRead(g) \/ ClosureWrite(g) \/ ClosureEval(g)
    \/ ClosureReturn(g) \/ CheckException(g)
    \/ UnlockMu1(g) \/ UnlockDec(g) \/ UnlockChk(g) \/ UnlockClr(g)
    \/ UnlockRel0(g) \/ UnlockMuU(g) \/ UnlockRelN(g) \/ Return(g)

Next == (\E g \in Goroutines : Step(g)) /\ UNCHANGED <<tableVars, isoVars, rd, api, alast, sio, fns, extVars, moreVars>>

Spec == Init /\ [][Next]_vars

\* ---------------------------------------------- handle table calls
\* a value-creating entry point (qjs_new_int32, qjs_eval, ...) stores a value
TStore(val) ==
    /\ LET res == store_jsvalue(tab[1], val) IN
         /\ tab' = [tab EXCEPT ![1] = res.t]
         /\ hist' = [hist EXCEPT
                !.live = IF res.ret # 0 THEN @ \cup {res.ret} ELSE @,
                !.bal = IF hist.odd = {} /\ res.ret # 0 THEN @ + 1 ELSE @,
                !.last = [op |-> "store", ret |-> res.ret,
                          head |-> tab[1].first_free_slot,
                          wasLive |-> res.ret \in hist.live]]
    /\ UNCHANGED <<progVars, isoVars>>

\* qjs_free_value(ctx, val_ptr) -> free_jsvalue_slot(val_ptr), for any word
TFree(h) ==
    /\ tab' = [tab EXCEPT ![1] = free_jsvalue_slot(tab[1], h)]
    /\ hist' = [hist EXCEPT
           !.live = @ \ {h},
           !.bal = IF hist.odd = {} /\ h \in hist.live THEN @ - 1 ELSE @,
           !.odd = @ \cup OddRelease(h, hist.live),
           !.last = [op |-> "free", ret |-> 0,
                     head |-> tab[1].first_free_slot, wasLive |-> h \in hist.live]]
    /\ UNCHANGED <<progVars, isoVars>>

NextTable ==
    /\ \/ \E val \in JSVals : TStore(val)
       \/ \E h \in Handles : TFree(h)
    /\ UNCHANGED <<rd, api, alast, sio, fns, extVars, moreVars>>

SpecTable == Init /\ [][NextTable]_vars

\* ------------------------------- operations on several Runtimes at once
\* lock() and unlock() are taken as single steps here; their interleavings
\* are the subject of Spec.
\* a string that fills the arena: each write of it resets the bump pointer
StrLens == {ARENA_SIZE - 1}

IsoFrame(kind, r, val, len) ==
    [kind |-> "iso", op |-> kind, r |-> r,
     pc |-> IF kind = "Function" THEN "reg" ELSE "l_mu",
     val |-> val, len |-> len, fid |-> 0, res |-> 0, alone |-> 0]

Instance(b) ==
    [tab |-> tab[b], arena_ptr |-> arena_ptr[b],
     callbacks |-> callbacks[b], nextFuncID |-> nextFuncID[b]]

\* what the operation of frame f does under the gate, on instance state I
OpBody(f, I) ==
    CASE f.op = "Int32" -> NewInt32(I, f.val)
      [] f.op = "String" -> NewString(I, f.len)
      [] f.op = "Function" -> NewCFunction(I, f.len)

\* a goroutine calls Context.Int32, Context.String or Context.Function
IsoCall(g) ==
    /\ stack[g] = <<>>
    /\ opsLeft > 0
    /\ \E r \in Runtimes :
          \/ stack' = [stack EXCEPT ![g] = <<IsoFrame("Int32", r, "a", 0)>>]
          \/ \E len \in StrLens :
                stack' = [stack EXCEPT ![g] = <<IsoFrame("String", r, "s", len)>>]
          \/ stack' = [stack EXCEPT ![g] = <<IsoFrame("Function", r, "f", 7)>>]
    /\ opsLeft' = opsLeft - 1
    /\ UNCHANGED <<gateVars, tab, isoVars>>

\* Context.Function: `funcID := c.runtime.bridge.RegisterGoFunc(bridgeFn)`
IsoRegister(g) ==
    /\ AtPc(g, "iso", "reg")
    /\ LET r == Top(g).r
           b == BridgeOf(r)
           reg == RegisterGoFunc(Instance(b))
       IN /\ callbacks' = [callbacks EXCEPT ![b] = reg.I.callbacks]
          /\ nextFuncID' = [nextFuncID EXCEPT ![b] = reg.I.nextFuncID]
          /\ solo' = [solo EXCEPT ![r] = RegisterGoFunc(@).I]
          /\ stack' = WithTop(g, [Top(g) EXCEPT !.pc = "l_mu", !.fid = reg.ret])
    /\ UNCHANGED <<gateVars, tab, arena_ptr, opsLeft>>

\* c.runtime.lock() of a goroutine that does not hold the gate
IsoLock(g) ==
    /\ AtPc(g, "iso", "l_mu")
    /\ MuFree(Top(g).r)
    /\ mu' = [mu EXCEPT ![GateOf(Top(g).r)] = g]
    /\ lockHolder' = [lockHolder EXCEPT ![GateOf(Top(g).r)] = getGoroutineID(g)]
    /\ lockDepth' = [lockDepth EXCEPT ![GateOf(Top(g).r)] = AcquireDepth]
    /\ stack' = WithTop(g, [Top(g) EXCEPT !.pc = "body"])
    /\ UNCHANGED <<lockMu, tab, isoVars, opsLeft>>

\* the bridge calls of the operation, made under the gate
IsoBody(g) ==
    /\ AtPc(g, "iso", "body")
    /\ LET r == Top(g).r
           b == BridgeOf(r)
           out == OpBody(Top(g), Instance(b))
           exp == OpBody(Top(g), solo[r])
       IN /\ tab' = [tab EXCEPT ![b] = out.I.tab]
          /\ arena_ptr' = [arena_ptr EXCEPT ![b] = out.I.arena_ptr]
          /\ solo' = [solo EXCEPT ![r] = exp.I]
          /\ stack' = WithTop(g, [Top(g) EXCEPT !.pc = "u_mu", !.res = out.ret,
                                                !.alone = exp.ret])
    /\ UNCHANGED <<gateVars, callbacks, nextFuncID, opsLeft>>

\* the deferred c.runtime.unlock(), then the return to the caller
IsoUnlock(g) ==
    /\ AtPc(g, "iso", "u_mu")
    /\ mu' = [mu EXCEPT ![GateOf(Top(g).r)] = 0]
    /\ lockHolder' = [lockHolder EXCEPT ![GateOf(Top(g).r)] = 0]
    /\ lockDepth' = [lockDepth EXCEPT ![GateOf(Top(g).r)] = DepthDec(@)]
    /\ stack' = [stack EXCEPT ![g] = <<>>]
    /\ UNCHANGED <<lockMu, tab, isoVars, opsLeft>>

IsoStep(g) ==
    \/ IsoCall(g)
    \/ IsoRegister(g)
    \/ IsoLock(g)
    \/ IsoBody(g)
    \/ IsoUnlock(g)

NextIso ==
    (\E g \in Goroutines : IsoStep(g))
        /\ UNCHANGED <<counter, hostCounter, incs, incErrs, hist, rd, api, alast,
                       sio, fns, extVars, moreVars>>

SpecIso == Init /\ [][NextIso]_vars

\* ------------------------------- public operations that need a handle
\* qjs_eval: `if (!ctx_ptr || !code_ptr) return 0`; JS_Eval gives a value
\* or the exception marker, which is stored
qjs_eval(I, code_ptr, res) ==
    IF code_ptr = 0 THEN [I |-> I, ret |-> 0] ELSE StoreIn(I, res)

\* Bridge.Eval: the code and the file name "<eval>" are written to the
\* arena, then qjs_eval is called
Eval(I, len, res) ==
    LET code == WriteString(I, len)
        file == WriteString(code.I, 6)
        ev == qjs_eval(file.I, code.ret, res)
    IN IF code.err THEN [I |-> code.I, ret |-> 0, err |-> TRUE, code |-> 0]
       ELSE IF file.err
       THEN [I |-> file.I, ret |-> 0, err |-> TRUE, code |-> code.ret]
       ELSE [I |-> ev.I, ret |-> ev.ret, err |-> FALSE, code |-> code.ret]

\* qjs_free_value: `if (!ctx_ptr || !val_ptr) return`
qjs_free_value(t, h) == IF h = 0 THEN t ELSE free_jsvalue_slot(t, h)

\* Bridge.GetErrorMessage(errPtr): a buffer of 1024 bytes in the source,
\* scaled here with the arena; the message of the error in the slot ("its",
\* or "" when it is empty), and some other text when the slot holds no error
GetErrorMessage(I, errPtr, m) ==
    LET buf == Alloc(I, ARENA_SIZE \div 4)
    IN [I |-> buf.I,
        msg |-> IF buf.err THEN ""
                ELSE IF load_jsvalue(I.tab, errPtr) = "err" THEN m
                ELSE "other"]

\* Context.checkException(valPtr), the pending exception having message m
checkException_NoFree(I, valPtr, m) ==
    IF load_jsvalue(I.tab, valPtr) = "exc"
    THEN LET ex == StoreIn(I, "err")
             gm == GetErrorMessage(ex.I, ex.ret, m)
         IN [I |-> gm.I, ptr |-> 0, err |-> TRUE, got |-> TRUE, ex |-> ex.ret,
             msg |-> IF gm.msg = "" THEN "JavaScript exception" ELSE gm.msg]
    ELSE [I |-> I, ptr |-> valPtr, err |-> FALSE, got |-> FALSE, ex |-> 0,
          msg |-> ""]

checkException(I, valPtr, m) ==
    IF load_jsvalue(I.tab, valPtr) = "exc"
    THEN LET ex == StoreIn(I, "err")
             gm == GetErrorMessage(ex.I, ex.ret, m)
         IN [I |-> [gm.I EXCEPT !.tab = qjs_free_value(gm.I.tab, ex.ret)],
             ptr |-> 0, err |-> TRUE, got |-> TRUE, ex |-> ex.ret,
             msg |-> IF gm.msg = "" THEN "JavaScript exception" ELSE gm.msg]
    ELSE [I |-> I, ptr |-> valPtr, err |-> FALSE, got |-> FALSE, ex |-> 0,
          msg |-> ""]

\* Context.EvalFile under the gate: `if err != nil { return Value{}, err }`
EvalFile(I, len, res, m) ==
    LET ev == Eval(I, len, res)
        chk == checkException(ev.I, ev.ret, m)
    IN IF ev.err
       THEN [I |-> ev.I, ptr |-> 0, err |-> TRUE, got |-> FALSE, ex |-> 0,
             msg |-> "WASM allocation failed", hnd |-> 0, code |-> ev.code]
       ELSE [I |-> chk.I, ptr |-> chk.ptr, err |-> chk.err, got |-> chk.got,
             ex |-> chk.ex, msg |-> chk.msg, hnd |-> ev.ret, code |-> ev.code]

\* the code strings evaluated: the empty one, and one of half the arena
CodeLens == {0, (ARENA_SIZE \div 2) - 1}

\* what JS_Eval makes of a source text: undefined for the empty one, else a
\* value or the exception marker
GuestResults(len) ==
    IF len = 0 THEN {"undef"} ELSE JSVals \cup {"undef", "exc"}

\* messages of a thrown error: a text, or the empty string
Messages(res) == IF res = "exc" THEN {"its", ""} ELSE {"its"}

\* Context.Eval(code): the guest returns a value or throws
ApiEval(len, res, m) ==
    \E out \in {EvalFile(Instance(1), len, res, m)} :
      /\ tab' = [tab EXCEPT ![1] = out.I.tab]
      /\ arena_ptr' = [arena_ptr EXCEPT ![1] = out.I.arena_ptr]
      /\ api' = [op |-> "Eval", ptr |-> out.ptr, err |-> out.err,
                 full |-> tab[1].first_free_slot = 0,
                 pending |-> (api.pending \/ res = "exc") /\ ~out.got,
                 len |-> len, res |-> res, thrown |-> m, msg |-> out.msg,
                 marker |-> out.got, hnd |-> out.hnd, ex |-> out.ex,
                 code |-> out.code]
      /\ UNCHANGED <<progVars, hist, callbacks, nextFuncID, solo, rd>>

\* Context.Int32(v)
ApiInt32(val) ==
    \E out \in {NewInt32(Instance(1), val)} :
      /\ tab' = [tab EXCEPT ![1] = out.I.tab]
      /\ api' = [api EXCEPT !.op = "Int32", !.ptr = out.ret, !.err = FALSE,
                            !.full = tab[1].first_free_slot = 0,
                            !.res = val, !.marker = FALSE, !.msg = ""]
      /\ UNCHANGED <<progVars, hist, isoVars, rd>>

NextApi ==
    /\ \/ \E len \in CodeLens : \E res \in GuestResults(len) :
             \E m \in Messages(res) : ApiEval(len, res, m)
       \/ \E val \in JSVals : ApiInt32(val)
    /\ UNCHANGED <<alast, sio, fns, extVars, moreVars>>

SpecApi == Init /\ [][NextApi]_vars

\* ------------------------------------------------- calls on the arena
\* request sizes: every value of a uint32_t
Sizes == 0..(Word - 1)

\* qjs_alloc(size)
AAlloc(size) ==
    LET out == arena_alloc(arena_ptr[1], size) IN
      /\ arena_ptr' = [arena_ptr EXCEPT ![1] = out.arena_ptr]
      /\ alast' = [op |-> "alloc", size |-> size, ptr |-> out.ptr,
                before |-> arena_ptr[1], reset |-> out.reset,
                zero |-> alast.zero \/ (out.ptr = 0 /\ out.arena_ptr # 0),
                zeroBefore |-> alast.zero]
      /\ UNCHANGED <<progVars, tableVars, callbacks, nextFuncID, solo, rd, api,
                     sio, fns, extVars, moreVars>>

\* qjs_reset_heap()
AReset ==
    /\ arena_ptr' = [arena_ptr EXCEPT ![1] = 0]
    /\ alast' = [alast EXCEPT !.op = "reset", !.size = 0, !.ptr = 0,
                        !.before = arena_ptr[1], !.reset = TRUE,
                        !.zeroBefore = alast.zero]
    /\ UNCHANGED <<progVars, tableVars, callbacks, nextFuncID, solo, rd, api,
                   sio, fns, extVars, moreVars>>

NextArena ==
    \/ \E size \in Sizes : AAlloc(size)
    \/ AReset

SpecArena == Init /\ [][NextArena]_vars

\* ------------------------------------------------ resolving a handle
\* words a caller may pass where a handle is expected
ReadHandles == Handles \cup {2147483647}

ReadFns == {"load_jsvalue", "qjs_is_undefined", "qjs_to_int32"}

\* the payload stored before a read: one int32
ReadVals == {"a"}

\* qjs_new_int32(val)
RStore(val) ==
    /\ tab' = [tab EXCEPT ![1] = store_jsvalue(tab[1], val).t]
    /\ UNCHANGED <<progVars, isoVars, hist, rd>>

\* qjs_free_value(ctx, h)
RFree(h) ==
    /\ tab' = [tab EXCEPT ![1] = free_jsvalue_slot(tab[1], h)]
    /\ UNCHANGED <<progVars, isoVars, hist, rd>>

\* load_jsvalue(h), qjs_is_undefined(h), qjs_to_int32(ctx, h, result)
RRead(fn, h) ==
    /\ rd' = ReadCall(fn, tab[1], h)
    /\ UNCHANGED <<progVars, isoVars, tab, hist>>

NextResolve ==
    /\ \/ \E val \in ReadVals : RStore(val)
       \/ \E h \in Handles : RFree(h)
       \/ \E fn \in ReadFns, h \in ReadHandles : RRead(fn, h)
    /\ UNCHANGED <<api, alast, sio, fns, extVars, moreVars>>

SpecResolve == Init /\ [][NextResolve]_vars

\* ===================================================================
\* Properties of the execution gate
\* ===================================================================
Frames(g) == {stack[g][i] : i \in 1..Len(stack[g])}
OpFrames(g) == {f \in Frames(g) : f.kind = "op"}
Outer(g) == stack[g][1]
Idle(g) == stack[g] = <<>>

\* op-frame positions after r.mu.Lock() returned and before lock() returns
AcquiringPcs == {"l_mu2", "l_setH", "l_setD", "l_rel2"}
\* op-frame positions on the slow path of lock()
SlowPcs == {"l_rel1", "l_mu"} \cup AcquiringPcs
\* op-frame positions between lock() returning and the deferred unlock()
BodyPcs == {"guest", "g_wr", "in_cb", "chk"}
\* op-frame positions inside unlock()
UnlockPcs == {"u_mu", "u_dec", "u_chk", "u_clr", "u_rel0", "u_muU", "u_relN"}

\* g is between a returned lock() and the end of its matching final unlock()
InGate(g, r) ==
    /\ ~Idle(g)
    /\ Outer(g).r = r
    /\ Outer(g).pc \in BodyPcs \cup UnlockPcs

WaitsForMutex(g, r) == AtPc(g, "op", "l_mu") /\ Top(g).r = r

\* C1: mutual exclusion of the gate. For one Runtime at most one goroutine is
\* between a returned lock() and the end of its final unlock(); and a goroutine
\* that got past r.mu.Lock() on the slow path finds the gate fully released
\* (depth zero, no owner) and no other goroutine inside the gate.
C1_MutualExclusion ==
    \A r \in Runtimes : \A g \in Goroutines :
        /\ InGate(g, r) => \A h \in Goroutines \ {g} : ~InGate(h, r)
        /\ (~Idle(g) /\ Top(g).kind = "op" /\ Top(g).r = r /\ Top(g).pc \in {"l_mu2", "l_setH"})
              => /\ lockDepth[GateOf(r)] = 0
                 /\ lockHolder[GateOf(r)] = 0
                 /\ \A h \in Goroutines \ {g} : ~InGate(h, r)

\* one goroutine is inside the gate while another waits in r.mu.Lock()
C1_Witness ==
    \E g, h \in Goroutines :
        g # h /\ InGate(g, 1) /\ Outer(g).pc = "g_wr" /\ WaitsForMutex(h, 1)

\* frames in which guest state is touched: a guest entry point is executing
\* (or about to be called), or a host closure is running
TouchesGuest(f) == f.kind = "cb" \/ f.pc \in BodyPcs

\* C2: guest state is touched only under the gate. Whenever a goroutine has a
\* frame in which a guest entry point executes or a host closure runs, that
\* goroutine is the owner of the Runtime's gate with depth >= 1; hence host
\* closures of one Runtime never run on two goroutines at the same time.
C2_GuestUnderGate ==
    \A g \in Goroutines :
        /\ \A f \in Frames(g) : TouchesGuest(f) =>
              /\ lockHolder[GateOf(f.r)] = GoId(g)
              /\ lockDepth[GateOf(f.r)] >= 1
        /\ \A h \in Goroutines \ {g} :
              \A f \in Frames(g), k \in Frames(h) :
                  ~(f.kind = "cb" /\ k.kind = "cb" /\ f.r = k.r)

\* a host closure runs on one goroutine while another goroutine waits for the gate
C2_Witness ==
    \E g, h \in Goroutines :
        g # h /\ AtPc(g, "cb", "cb_wr") /\ WaitsForMutex(h, Top(g).r)

\* C3: every public operation that called lock() calls unlock() exactly once
\* on every return path (success, bridge error, guest exception). When it
\* returns, the caller's depth in the gate equals its depth before the call;
\* a call that was not nested leaves the caller without ownership and without
\* the mutex, and a free mutex means depth zero and no owner.
C3_UnlockOnEveryPath ==
    /\ \A g \in Goroutines : \A f \in OpFrames(g) :
          f.pc = "ret" =>
              /\ f.nl = 1 /\ f.nu = 1
              /\ DepthOf(g, f.r) = f.entry
              /\ f.entry = 0 => (lockHolder[GateOf(f.r)] # GoId(g) /\ mu[GateOf(f.r)] # g)
    /\ \A g \in Goroutines : Idle(g) =>
          \A r \in Runtimes : lockHolder[GateOf(r)] # GoId(g) /\ mu[GateOf(r)] # g
    /\ \A r \in Runtimes :
          mu[GateOf(r)] = 0 => (lockDepth[GateOf(r)] = 0 /\ lockHolder[GateOf(r)] = 0)

\* a nested evaluation that failed in the bridge call returns, and so does a
\* top-level evaluation that raised a guest exception
C3_Witness ==
    \E g, h \in Goroutines :
        /\ AtPc(g, "op", "ret") /\ Top(g).res = "err" /\ Top(g).entry >= 1
        /\ AtPc(h, "op", "ret") /\ Top(h).res = "jserr" /\ Top(h).entry = 0

\* C4: reentrant fast path. A lock() by the owner never enters the slow path
\* (it does not wait on the mutex) and returns with the depth raised by exactly
\* one, at any depth; a lock() on a gate the caller does not own returns with
\* the caller as owner and depth 1.
C4_ReentrantFastPath ==
    \A g \in Goroutines : \A f \in OpFrames(g) :
        /\ f.entry >= 1 => f.pc \notin SlowPcs
        /\ f.pc = "guest" =>
              /\ lockHolder[GateOf(f.r)] = GoId(g)
              /\ lockDepth[GateOf(f.r)] = f.entry + 1
              /\ mu[GateOf(f.r)] = g

\* a nested lock() has returned: the owner holds the gate at depth 2
C4_Witness ==
    \E g \in Goroutines :
        AtPc(g, "op", "guest") /\ Top(g).entry >= 1 /\ lockDepth[GateOf(Top(g).r)] = 2

\* C5: unlock() lowers the depth by exactly one. The owner is cleared and the
\* mutex released only when the new depth is zero, and then they are; while
\* the depth stays positive the owner and the mutex holder do not change, so
\* no waiting goroutine is admitted.
C5_UnlockStep ==
    \A r \in Runtimes :
        /\ lockDepth'[GateOf(r)] < lockDepth[GateOf(r)]
              => lockDepth'[GateOf(r)] = lockDepth[GateOf(r)] - 1
        /\ (lockHolder[GateOf(r)] # 0 /\ lockHolder'[GateOf(r)] # lockHolder[GateOf(r)])
              => (lockHolder'[GateOf(r)] = 0 /\ lockDepth[GateOf(r)] = 0)
        /\ (mu[GateOf(r)] # 0 /\ mu'[GateOf(r)] # mu[GateOf(r)])
              => (mu'[GateOf(r)] = 0 /\ lockDepth[GateOf(r)] = 0 /\ lockHolder[GateOf(r)] = 0)
        /\ (lockDepth[GateOf(r)] >= 1 /\ lockDepth'[GateOf(r)] >= 1)
              => (lockHolder'[GateOf(r)] = lockHolder[GateOf(r)] /\ mu'[GateOf(r)] = mu[GateOf(r)])
        /\ \A g \in Goroutines :
              (AtPc(g, "op", "u_chk") /\ Top(g).r = r /\ stack'[g] # stack[g])
                  => (Top(g).pc' = "u_clr" <=> lockDepth[GateOf(r)] = 0)

C5_Unlock == [][C5_UnlockStep]_vars

\* a nested unlock() has returned with the depth still positive, while another
\* goroutine is waiting for the mutex
C5_Witness ==
    \E g, h \in Goroutines :
        /\ g # h
        /\ AtPc(g, "op", "ret") /\ Top(g).entry = 1
        /\ lockDepth[GateOf(Top(g).r)] = 1
        /\ WaitsForMutex(h, Top(g).r)

\* g is inside an operation called from a host closure
Nested(g) == Len(stack[g]) >= 3 /\ Top(g).kind = "op"

\* C6: reentrancy safety. An operation called by a host closure on the same
\* Runtime and goroutine never waits for the mutex: whenever the bookkeeping
\* lock is not held by another goroutine it can take its next step. The depth
\* is at least 2 while the nested call is inside the gate, and once the
\* outermost call has returned the goroutine owns nothing; with every
\* goroutine returned the depth is zero.
C6_ReentrancySafety ==
    /\ \A g \in Goroutines : Nested(g) =>
          /\ Top(g).pc \notin SlowPcs
          /\ lockMu[GateOf(Top(g).r)] \in {0, g} => ENABLED Step(g)
          /\ Top(g).pc \in BodyPcs => lockDepth[GateOf(Top(g).r)] >= 2
          /\ lockHolder[GateOf(Top(g).r)] = GoId(g)
    /\ \A g \in Goroutines : Idle(g) => \A r \in Runtimes : DepthOf(g, r) = 0
    /\ (\A g \in Goroutines : Idle(g)) => \A r \in Runtimes : lockDepth[GateOf(r)] = 0

\* a closure's nested evaluation is itself running a closure that evaluates:
\* the deepest call chain the bound allows is inside the gate
C6_Witness ==
    \E g \in Goroutines :
        /\ Nested(g) /\ Top(g).pc = "g_wr"
        /\ lockDepth[GateOf(Top(g).r)] = MaxNest + 1

AllDone == opsLeft = 0 /\ \A g \in Goroutines : Idle(g)

\* increment evaluations on r that started and have not yet written
PendingGuest(r) ==
    Cardinality({<<g, i>> \in Goroutines \X (1..(2 * MaxNest + 2)) :
                    /\ i <= Len(stack[g])
                    /\ stack[g][i].r = r
                    /\ stack[g][i].kind = "op" /\ stack[g][i].pc = "g_wr"})
PendingHost(r) ==
    Cardinality({<<g, i>> \in Goroutines \X (1..(2 * MaxNest + 2)) :
                    /\ i <= Len(stack[g])
                    /\ stack[g][i].r = r
                    /\ stack[g][i].kind = "cb" /\ stack[g][i].src = "hinc"
                    /\ stack[g][i].pc \in {"cb_run", "cb_wr"}})

\* C7: concurrent serialization. Evaluations that increment the shared guest
\* counter, or a host counter through a closure, are atomic with respect to
\* each other: at every moment the counter equals the number of increment
\* evaluations started minus those still to write (no update is lost), so
\* when all goroutines are done the counts equal the numbers of increment
\* evaluations performed; and none of them reported an error.
C7_Serialization ==
    \A r \in Runtimes :
        /\ incErrs[r] = 0
        /\ counter[r] + PendingGuest(r) = incs[r].guest
        /\ hostCounter[r] + PendingHost(r) = incs[r].host
        /\ AllDone => (counter[r] = incs[r].guest /\ hostCounter[r] = incs[r].host)

\* all goroutines are done; increments went both to the guest counter and
\* through the closure, and every operation of the budget was an increment
C7_Witness ==
    /\ AllDone
    /\ counter[1] >= 1 /\ hostCounter[1] >= 1
    /\ counter[1] + hostCounter[1] = MaxOps

\* ===================================================================
\* Properties of independent Runtimes
\* ===================================================================
\* everything a Runtime owns: its gate, and the handle table, arena and
\* callback table of its Bridge
RuntimeState(r) ==
    [mu |-> mu[GateOf(r)], lockMu |-> lockMu[GateOf(r)],
     lockHolder |-> lockHolder[GateOf(r)], lockDepth |-> lockDepth[GateOf(r)],
     inst |-> Instance(BridgeOf(r))]

\* goroutine g is inside the gate of Runtime r
IsoHolds(g, r) == \E f \in Frames(g) : f.kind = "iso" /\ f.r = r /\ f.pc \in {"body", "u_mu"}

\* a step changes the state of Runtime b only if it is a step of an
\* operation on b
C8_FrameStep ==
    \A b \in Runtimes :
        RuntimeState(b)' # RuntimeState(b) =>
            \E g \in Goroutines :
                stack[g] # <<>> /\ Top(g).r = b /\ stack'[g] # stack[g]

\* a goroutine acquiring the gate of b can proceed unless a goroutine is
\* inside the gate of b itself, whatever gates of other Runtimes are held
C8_NoBlocking ==
    \A g \in Goroutines :
        (AtPc(g, "iso", "l_mu")
            /\ \A g2 \in Goroutines \ {g} : ~IsoHolds(g2, Top(g).r))
        => ENABLED IsoLock(g)

\* each Runtime's instance is in the state its own operations alone
\* produce, and each operation returned what it returns alone
C8_Alone ==
    /\ \A r \in Runtimes : Instance(BridgeOf(r)) = solo[r]
    /\ \A g \in Goroutines : AtPc(g, "iso", "u_mu") => Top(g).res = Top(g).alone

\* C8: independent Machine Instances do not interfere: an operation on
\* Runtime A leaves Runtime B's gate state, handle table, arena and callback
\* table unchanged, a goroutine holding A's gate never blocks a goroutine
\* acquiring B's gate, and operations on different Runtimes interleaved
\* arbitrarily each return the result they return alone.
C8_Independence == [](C8_NoBlocking /\ C8_Alone) /\ [][C8_FrameStep]_vars

\* two goroutines are inside the gates of two different Runtimes at once,
\* both having changed their own instance
C8_Witness ==
    \E g1, g2 \in Goroutines :
        /\ g1 # g2
        /\ AtPc(g1, "iso", "u_mu") /\ AtPc(g2, "iso", "u_mu")
        /\ Top(g1).r # Top(g2).r
        /\ Top(g1).res # 0 /\ Top(g2).res # 0
        /\ Instance(BridgeOf(Top(g1).r)) # Instance(BridgeOf(Top(g2).r))

\* ===================================================================
\* Properties of the handle table
\* ===================================================================
RECURSIVE Chain(_, _, _)
\* the slots met from slot s along next_free, up to the terminator 0
Chain(t, s, seen) ==
    IF s = 0 \/ s \in seen THEN seen
    ELSE Chain(t, t.next_free[s], seen \cup {s})

Freelist(t) == Chain(t, t.first_free_slot, {})

\* C9: the zero handle is reserved.  In every reachable state of the handle
\* table, including after releases of zero, out-of-range or already-released
\* handles: a successful store_jsvalue returns a handle in
\* 1..MAX_JSVALUE_SLOTS-1, never 0; slot 0 is never put on the freelist (no
\* release writes slot 0 or empties the freelist); and store_jsvalue returns
\* 0 exactly when the freelist is empty (first_free_slot = 0).
C9_ZeroReserved ==
    LET t == tab[1]
        last == hist.last
    IN /\ 0 \notin hist.live
       /\ last.op = "store" => (last.ret = 0 <=> last.head = 0)
       /\ last.op = "store" /\ last.ret # 0 => last.ret \in 1..(MAX_JSVALUE_SLOTS - 1)
       /\ t.value[0] = "undef" /\ t.next_free[0] = 1
       /\ last.op = "free" /\ t.first_free_slot = 0 => last.head = 0
       /\ t.first_free_slot \in Slots
       /\ \A s \in Slots : t.next_free[s] \in Slots

\* an allocation succeeds after releases of zero, of an out-of-range handle
\* and of an already-released handle have all been made
C9_Witness ==
    /\ hist.odd = {"zero", "range", "again"}
    /\ hist.last.op = "store"
    /\ hist.last.ret # 0

\* C10: no double allocation.  As long as every release was the release of
\* a handle issued and not yet released, in any order, store_jsvalue never
\* returns a handle that is still live, no live handle is on the freelist,
\* and the number of live handles equals the number of successful
\* allocations minus the number of releases.
C10_NoDoubleAllocation ==
    hist.odd = {} =>
        /\ hist.last.op = "store" => ~hist.last.wasLive
        /\ Freelist(tab[1]) \cap hist.live = {}
        /\ Cardinality(hist.live) = hist.bal

\* handles 1, 2, 3 were issued, 1 then 3 released, and the next allocation
\* returned 3 while 2 is still live
C10_Witness ==
    /\ hist.odd = {}
    /\ hist.last.op = "store"
    /\ hist.last.ret = 3
    /\ hist.live = {2, 3}
    /\ tab[1].first_free_slot = 1
    /\ hist.bal = 2

\* a release of a handle that is not live (already released, zero or out of
\* range) leaves the whole table as it was
C11_InvalidReleaseStep ==
    (hist'.last.op = "free" /\ ~hist'.last.wasLive) => tab'[1] = tab[1]

\* C11: releasing a handle that is already released, zero, or out of range
\* is a no-op: free_jsvalue_slot leaves the slot contents, the freelist order
\* and the freelist head unchanged, so that later allocations never return a
\* handle that is still live.
C11_InvalidReleaseNoOp ==
    /\ [][C11_InvalidReleaseStep]_vars
    /\ [](hist.last.op = "store" => ~hist.last.wasLive)

\* ===================================================================
\* Properties of resolving a handle
\* ===================================================================
\* a resolving call leaves the handle table as it was
C12_ReadStep == rd' # rd => tab' = tab

\* C12: resolve is total.  load_jsvalue on handle 0 or on any handle >=
\* MAX_JSVALUE_SLOTS returns the undefined value, does not fault and leaves
\* the table unchanged; a type predicate (qjs_is_undefined) and a conversion
\* (qjs_to_int32) given such a handle see the undefined value too.
C12_ResolveTotal ==
    /\ [](rd.val # "fault")
    /\ []((rd.fn # "none" /\ BadSlot(rd.h)) =>
            /\ rd.val = "undef"
            /\ rd.fn = "qjs_is_undefined" => rd.rc = 1
            /\ rd.fn = "qjs_to_int32" => rd.rc = 0)
    /\ [][C12_ReadStep]_vars

\* a handle past the table is resolved while slot 1 holds a payload
C12_Witness ==
    /\ rd.fn = "qjs_is_undefined"
    /\ rd.h >= MAX_JSVALUE_SLOTS
    /\ rd.rc = 1
    /\ tab[1].value[1] \in JSVals

\* a store_jsvalue made on an empty freelist returns 0 and writes nothing
C13_FailedStoreStep ==
    (hist'.last.op = "store" /\ tab[1].first_free_slot = 0) =>
        (hist'.last.ret = 0 /\ tab' = tab)

\* C13: exhaustion of the handle table is recoverable.  When the freelist is
\* empty store_jsvalue returns 0 and leaves the table unchanged; from a fresh
\* table, and as long as only live handles are released, the freelist is
\* empty exactly when MAX_JSVALUE_SLOTS - 1 handles are live, so exactly
\* MAX_JSVALUE_SLOTS - 1 allocations succeed before the first failure; and
\* right after the release of a live handle an allocation succeeds.
C13_Exhaustion ==
    /\ [][C13_FailedStoreStep]_vars
    /\ [](hist.odd = {} =>
            (tab[1].first_free_slot = 0
                <=> Cardinality(hist.live) = MAX_JSVALUE_SLOTS - 1))
    /\ []((hist.last.op = "free" /\ hist.last.wasLive) =>
            \A val \in JSVals : store_jsvalue(tab[1], val).ret # 0)

\* the first failure: every slot but slot 0 is live, no release was needed
\* to get there, and the last store_jsvalue returned 0
C13_Witness ==
    /\ hist.odd = {}
    /\ hist.last.op = "store"
    /\ hist.last.ret = 0
    /\ hist.live = Slots \ {0}
    /\ hist.bal = MAX_JSVALUE_SLOTS - 1

\* ===================================================================
\* Properties of public operations on a full handle table
\* ===================================================================
\* C14: when the handle table is full, a public operation that needs a new
\* handle (Context.Eval, Context.Int32) surfaces a host-level error from
\* that very call; it does not return a Value with handle 0 together with a
\* nil error, and the guest is not left with an exception nobody fetched.
C14_ExhaustionSurfaced ==
    (api.op # "none" /\ api.full) =>
        /\ api.err
        /\ ~(api.ptr = 0 /\ ~api.err)
        /\ ~api.pending

\* ===================================================================
\* Round trip and reuse order of the handle table
\* ===================================================================
\* a step gives the handle it issues the value stored, and leaves every
\* handle that is live before and after it resolving to the same value
C15_RoundTripStep ==
    /\ \A val \in JSVals :
          (/\ hist'.last.op = "store"
           /\ hist'.last.ret # 0
           /\ tab'[1] = store_jsvalue(tab[1], val).t)
          => load_jsvalue(tab'[1], hist'.last.ret) = val
    /\ \A h \in hist.live \cap hist'.live :
          load_jsvalue(tab'[1], h) = load_jsvalue(tab[1], h)

\* C15: handle round trip.  The handle h returned by a successful
\* store_jsvalue(v) resolves (load_jsvalue(h)) to v from then until h is
\* released, whatever allocations and releases of other handles are made in
\* between.
C15_RoundTrip == [][C15_RoundTripStep]_vars

\* the release of a live handle h leaves h resolving to undefined and slot
\* h at the head of the freelist, in front of the old head; a successful
\* allocation takes the head of the freelist
C16_ReuseStep ==
    /\ \A h \in hist.live \ hist'.live :
          /\ load_jsvalue(tab'[1], h) = "undef"
          /\ tab'[1].first_free_slot = h
          /\ tab'[1].next_free[h] = tab[1].first_free_slot
          /\ \A val \in JSVals : store_jsvalue(tab'[1], val).ret = h
    /\ (hist'.last.op = "store" /\ hist'.last.ret # 0) =>
          /\ hist'.last.ret = tab[1].first_free_slot
          /\ tab'[1].first_free_slot = tab[1].next_free[hist'.last.ret]

\* from the table as it is, releasing the live handles h1 then h2 makes the
\* next two allocations return h2 then h1
C16_TwoReleases ==
    \A h1, h2 \in hist.live :
        h1 # h2 =>
            LET t2 == free_jsvalue_slot(free_jsvalue_slot(tab[1], h1), h2)
                s1 == store_jsvalue(t2, "a")
                s2 == store_jsvalue(s1.t, "b")
            IN s1.ret = h2 /\ s2.ret = h1

\* C16: releasing a live handle h overwrites its slot with undefined and
\* pushes the slot on the head of the freelist, so reuse is LIFO: the next
\* successful allocation after release(h) returns h, and after releasing h1
\* then h2 the next two allocations return h2 then h1.
C16_LifoReuse == [][C16_ReuseStep]_vars /\ []C16_TwoReleases

\* handles 1, 2, 3 were issued, handle 1 was released and has just been
\* issued again
C16_Witness ==
    /\ hist.odd = {}
    /\ hist.last.op = "store"
    /\ hist.last.ret = 1
    /\ hist.live = {1, 2, 3}
    /\ tab[1].value[1] \in JSVals

\* ===================================================================
\* Properties of the temporary arena
\* ===================================================================
\* C17: every address returned by arena_alloc is 8-byte aligned relative to
\* the arena base (its offset is a multiple of 8), for every request size
\* and after any sequence of allocations, wraparounds and resets; the bump
\* pointer stays a multiple of 8 as well.
C17_Aligned ==
    /\ arena_ptr[1] % 8 = 0
    /\ alast.op = "alloc" => alast.ptr % 8 = 0

\* a request of a size that is not a multiple of 8 is served at a non-zero
\* offset, after an oversized request had left the bump pointer past the
\* arena and the size_t sum wrapped
C17_Witness ==
    /\ alast.op = "alloc"
    /\ alast.size % 8 # 0
    /\ alast.ptr > 0
    /\ alast.zeroBefore
    /\ alast.before > ARENA_SIZE

\* the request size rounded up to a multiple of 8
Round8(size) == ((size + 7) \div 8) * 8

\* C18: arena_alloc(size): if the current offset plus the size rounded up to
\* a multiple of 8 exceeds ARENA_SIZE, the offset is reset to zero and the
\* allocation is served from offset zero (the offset afterwards equals the
\* rounded size); otherwise the allocation is served at the current offset,
\* which advances by the rounded size.  An allocation served after such a
\* reset overlaps addresses issued before it.
C18_ArenaAlloc ==
    alast.op = "alloc" =>
        IF alast.before + Round8(alast.size) > ARENA_SIZE
        THEN /\ alast.ptr = 0
             /\ arena_ptr[1] = Round8(alast.size)
             /\ (alast.before > 0 /\ alast.size > 0) => alast.zeroBefore
        ELSE /\ alast.ptr = alast.before
             /\ arena_ptr[1] = alast.before + Round8(alast.size)

\* ------------------------------------------- strings through the bridge
\* Context.String(s)
SString(s) ==
    LET out == NewString(Instance(1), Len(s)) IN
      /\ tab' = [tab EXCEPT ![1] = out.I.tab]
      /\ arena_ptr' = [arena_ptr EXCEPT ![1] = out.I.arena_ptr]
      /\ sio' = [op |-> "String", s |-> s, h |-> out.ret,
                 val |-> JS_NewString(WriteData(s)), out |-> <<>>]
      /\ UNCHANGED <<progVars, hist, callbacks, nextFuncID, solo, rd, api,
                     alast, fns, extVars, moreVars>>

\* Value.String() of the Value the last Context.String returned
SRead(after) ==
    /\ sio.op # "none"
    /\ sio' = [sio EXCEPT !.op = "read",
                          !.out = Bridge_ToString(tab[1], sio.h, sio.val, after)]
    /\ UNCHANGED <<progVars, tableVars, isoVars, rd, api, alast, fns, extVars, moreVars>>

NextString ==
    \/ \E s \in Strings : SString(s)
    \/ \E after \in {0, 7} : SRead(after)

SpecString == Init /\ [][NextString]_vars

MaxReg == FuncWord + 1

\* Context.Function, first part: RegisterGoFunc under callbackMu
FRegister(g) ==
    /\ fns.pend[g] = <<>>
    /\ Len(fns.rets) < MaxReg
    /\ LET out == RegisterGoFunc(Instance(1)) IN
         /\ callbacks' = [callbacks EXCEPT ![1] = out.I.callbacks]
         /\ nextFuncID' = [nextFuncID EXCEPT ![1] = out.I.nextFuncID]
         /\ fns' = [fns EXCEPT !.rets = Append(@, out.ret),
                               !.pend[g] = <<out.ret>>]
    /\ UNCHANGED <<progVars, tableVars, arena_ptr, solo, rd, api, alast, sio, extVars, moreVars>>

\* Context.Function, second part, under the gate: NewCFunction makes the
\* guest function object that carries the id
FCreate(g) ==
    /\ fns.pend[g] # <<>>
    /\ LET out == NewCFunction(Instance(1), 1) IN
         /\ tab' = [tab EXCEPT ![1] = out.I.tab]
         /\ arena_ptr' = [arena_ptr EXCEPT ![1] = out.I.arena_ptr]
         /\ fns' = [fns EXCEPT !.refs = @ \cup {fns.pend[g][1]},
                               !.pend[g] = <<>>]
    /\ UNCHANGED <<progVars, hist, callbacks, nextFuncID, solo, rd, api, alast,
                   sio, extVars, moreVars>>

\* Context.Function, second part, when the call into the guest fails:
\* `if err != nil { UnregisterGoFunc(funcID) }`
FCreateFails(g) ==
    /\ fns.pend[g] # <<>>
    /\ fns.fails < MaxFail
    /\ callbacks' = [callbacks EXCEPT
                       ![1] = UnregisterGoFunc(Instance(1), fns.pend[g][1]).callbacks]
    /\ fns' = [fns EXCEPT !.pend[g] = <<>>, !.fails = @ + 1]
    /\ UNCHANGED <<progVars, tableVars, arena_ptr, nextFuncID, solo, rd, api,
                   alast, sio, extVars, moreVars>>

NextFunc ==
    \E g \in Goroutines : FRegister(g) \/ FCreate(g) \/ FCreateFails(g)

SpecFunc == Init /\ [][NextFunc]_vars

\* the ids returned so far strictly increase in registration order, from 1
C20_Increasing ==
    /\ fns.rets # <<>> => fns.rets[1] = 1
    /\ \A i, j \in 1..Len(fns.rets) : i < j => fns.rets[i] < fns.rets[j]

\* a registration does not return an id that a guest function object
\* refers to
C20_RegisterStep ==
    fns'.rets # fns.rets => fns'.rets[Len(fns'.rets)] \notin fns.refs

\* C20: RegisterGoFunc returns ids that strictly increase in registration
\* order, starting at 1; across any sequence of register and unregister
\* calls, concurrent registrations and the width of the counter included, no
\* id is returned twice, and no id is reassigned while a guest function
\* object still refers to it.
C20_UniqueIds == []C20_Increasing /\ [][C20_RegisterStep]_vars

\* ------------------------------------------- guest calls of a closure
\* JS_NewInt32(n): the int32 values the table holds, by name
Int32Val(n) == <<"z", "a", "b", "c", "d">>[n + 1]

\* go_callback_wrapper: `arg_ptrs[i] = store_jsvalue(JS_DupValue(ctx, argv[i]))`
RECURSIVE StoreArgs(_, _)
StoreArgs(I, argv) ==
    IF argv = <<>> THEN [I |-> I, ptrs |-> <<>>]
    ELSE LET st == StoreIn(I, Head(argv))
             rest == StoreArgs(st.I, Tail(argv))
         IN [I |-> rest.I, ptrs |-> <<st.ret>> \o rest.ptrs]

\* Value.Int32 -> Bridge.ToInt32: Alloc(4), qjs_to_int32
ToInt32(I, valPtr) ==
    [I |-> Alloc(I, 4).I, ret |-> JS_ToInt32(load_jsvalue(I.tab, valPtr))]

\* the closure of TestGoFunction: c.Int32(0) for fewer than two arguments,
\* else c.Int32(a + b)
addFn(I, args) ==
    IF Len(args) < 2 THEN NewInt32(I, Int32Val(0))
    ELSE LET a == ToInt32(I, args[1])
             b == ToInt32(a.I, args[2])
         IN NewInt32(b.I, Int32Val(a.ret + b.ret))

\* bridgeFn of Context.Function: wraps the handles as Values, makes `this`
\* with undefinedUnlocked, calls the closure, returns the handle of its
\* result; `seen` is what the closure's argument Values resolve to
bridgeFn(I, argPtrs) ==
    LET this == StoreIn(I, "undef")
        out == addFn(this.I, argPtrs)
    IN [I |-> out.I, ret |-> out.ret, calls |-> 1,
        seen |-> [i \in 1..Len(argPtrs) |-> load_jsvalue(this.I.tab, argPtrs[i])]]

\* Bridge.hostCallGo
hostCallGo_NoLookup(I, funcID, argPtrs) == bridgeFn(I, argPtrs)

hostCallGo(I, funcID, argPtrs) ==
    IF funcID \notin I.callbacks
    THEN LET undef == StoreIn(I, "undef")
         IN [I |-> undef.I, ret |-> undef.ret, calls |-> 0, seen |-> <<>>]
    ELSE bridgeFn(I, argPtrs)

\* go_callback_wrapper: the value the guest call evaluates to is
\* load_jsvalue(result_ptr)
go_callback_wrapper(I, func_id, argv) ==
    LET I1 == IF Len(argv) > 0 THEN Alloc(I, 4 * Len(argv)).I ELSE I
        st == StoreArgs(I1, argv)
        hc == hostCallGo(st.I, func_id, st.ptrs)
    IN [I |-> hc.I, ret |-> hc.ret, calls |-> hc.calls, seen |-> hc.seen,
        val |-> load_jsvalue(hc.I.tab, hc.ret)]

\* argument lists of a guest call
ArgLists == UNION {[1..n -> JSVals] : n \in 0..MaxArgs}

\* Context.Function(name, fn)
CFunction ==
    /\ nextFuncID[1] <= MaxFn
    /\ LET reg == RegisterGoFunc(Instance(1))
           out == NewCFunction(reg.I, 1)
       IN /\ tab' = [tab EXCEPT ![1] = out.I.tab]
          /\ arena_ptr' = [arena_ptr EXCEPT ![1] = out.I.arena_ptr]
          /\ callbacks' = [callbacks EXCEPT ![1] = out.I.callbacks]
          /\ nextFuncID' = [nextFuncID EXCEPT ![1] = out.I.nextFuncID]
          /\ cb' = [cb EXCEPT !.objs = @ \cup {reg.ret}, !.op = "Function"]
    /\ UNCHANGED <<progVars, hist, solo, rd, api, alast, sio, fns, jobs, gl, moreVars>>

\* Bridge.UnregisterGoFunc(funcID) of a registered id
CUnregister(funcID) ==
    /\ funcID \in callbacks[1]
    /\ callbacks' = [callbacks EXCEPT
                       ![1] = UnregisterGoFunc(Instance(1), funcID).callbacks]
    /\ cb' = [cb EXCEPT !.op = "Unregister"]
    /\ UNCHANGED <<progVars, tableVars, arena_ptr, nextFuncID, solo, rd, api,
                   alast, sio, fns, jobs, gl, moreVars>>

\* Context.Eval of a call `f(args)` of the guest function that carries
\* funcID: the code and the file name go to the arena, the guest runs
\* go_callback_wrapper, qjs_eval stores what the call evaluates to
CInvoke(funcID, argv) ==
    /\ funcID \in cb.objs
    /\ \E code \in {WriteString(Instance(1), 3 + Len(argv))} :
       \E w \in {go_callback_wrapper(WriteString(code.I, 6).I, funcID, argv)} :
       \E ev \in {qjs_eval(w.I, code.ret, w.val)} :
       \E out \in {checkException(ev.I, ev.ret, "its")} :
          /\ tab' = [tab EXCEPT ![1] = out.I.tab]
          /\ arena_ptr' = [arena_ptr EXCEPT ![1] = out.I.arena_ptr]
          /\ callbacks' = [callbacks EXCEPT ![1] = out.I.callbacks]
          /\ cb' = [cb EXCEPT !.op = "call", !.id = funcID,
                              !.known = funcID \in callbacks[1],
                              !.argv = argv, !.seen = w.seen,
                              !.calls = w.calls, !.ret = w.ret,
                              !.val = w.val, !.err = out.err]
    /\ UNCHANGED <<progVars, hist, nextFuncID, solo, rd, api, alast, sio, fns,
                   jobs, gl, moreVars>>

NextCall ==
    \/ CFunction
    \/ \E funcID \in 1..MaxFn : CUnregister(funcID)
    \/ \E funcID \in 1..MaxFn, argv \in ArgLists : CInvoke(funcID, argv)

SpecCall == Init /\ [][NextCall]_vars

\* ===================================================================
\* Properties of callback dispatch
\* ===================================================================
\* a guest call of an id that is not in the callback table leaves the
\* callback table as it was
C21_StaleStep ==
    (cb' # cb /\ cb'.op = "call" /\ ~cb'.known) => callbacks' = callbacks

\* C21: invoking a callback id that is not in the table (removed by
\* UnregisterGoFunc) makes hostCallGo return a handle that resolves to
\* undefined, without invoking any closure, without failing the guest call
\* and without changing the callback table.
C21_StaleId ==
    /\ []((cb.op = "call" /\ ~cb.known) =>
            /\ cb.calls = 0
            /\ load_jsvalue(tab[1], cb.ret) = "undef"
            /\ cb.val = "undef"
            /\ ~cb.err)
    /\ [][C21_StaleStep]_vars

\* a function whose id was unregistered is called with an argument and the
\* call gets a fresh handle
C21_Witness ==
    /\ cb.op = "call"
    /\ cb.id \in cb.objs
    /\ ~cb.known
    /\ Len(cb.argv) >= 1
    /\ cb.ret # 0

\* what the closure of TestGoFunction returns for the guest arguments argv
AddResult(argv) ==
    IF Len(argv) < 2 THEN Int32Val(0)
    ELSE Int32Val(JS_ToInt32(argv[1]) + JS_ToInt32(argv[2]))

\* C22: a guest call to a function created by Context.Function invokes the
\* registered closure exactly once, with exactly argc argument Values in
\* call order, each resolving to the corresponding guest argument, and the
\* guest call evaluates to the value of the handle the closure returns.  With
\* zero arguments the closure is still invoked, with an empty argument list,
\* and the call yields a defined value.
C22_Dispatch ==
    (cb.op = "call" /\ cb.known) =>
        /\ cb.calls = 1
        /\ cb.seen = cb.argv
        /\ cb.val = AddResult(cb.argv)
        /\ cb.val # "undef"

C24_NoSilentDrop ==
    (api.op = "Eval" /\ api.res = "exc") =>
        /\ api.err
        /\ ~(~api.err /\ load_jsvalue(tab[1], api.ptr) = "undef")

\* C25: evaluating the empty source text returns a nil error and a Value
\* that is undefined; the one-byte source buffer gets a non-zero arena
\* address, so the guest evaluate entry point is reached.
C25_EmptySource ==
    (api.op = "Eval" /\ api.len = 0) =>
        /\ ~api.err
        /\ api.code # 0
        /\ api.ptr = api.hnd
        /\ JS_IsUndefined(load_jsvalue(tab[1], api.ptr)) = 1

\* the empty source was written at the start of the arena and evaluated
\* while the handle table was full
C25_Witness ==
    /\ api.op = "Eval"
    /\ api.len = 0
    /\ api.code = ArenaAddr(0)
    /\ api.full
    /\ api.ptr = 0
    /\ ~api.err

\* C29: sustained use does not exhaust the bridge.  Any number of successive
\* Eval and value-creation operations on one Context, each of whose results
\* the caller reads, keeps succeeding with the correct result; earlier
\* operations do not permanently consume handle-table capacity needed by
\* later ones.
C29_SustainedUse ==
    (api.op # "none" /\ api.res # "exc") =>
        /\ ~api.err
        /\ load_jsvalue(tab[1], api.ptr) = api.res

\* ------------------------------------------ Contexts of one Runtime
\* qjs_new_context: JS_NewContext gives a context of its own, at an address
\* no live context has
qjs_new_context(ctxs) == Len(ctxs) + 1

\* the ctxPtr a Context passes to the bridge: `c.ctxPtr`
CtxPtrOf_First(c) == gl.ctxs[1]

CtxPtrOf(c) == gl.ctxs[c]

\* Runtime.NewContext()
GNewContext ==
    /\ Len(gl.ctxs) < MaxCtx
    /\ gl' = [gl EXCEPT !.ctxs = Append(@, qjs_new_context(@)),
                        !.last = [op |-> "new", c |-> Len(gl.ctxs) + 1,
                                  res |-> "undef"]]
    /\ UNCHANGED <<progVars, tableVars, isoVars, rd, api, alast, sio, fns, cb,
                   jobs, moreVars>>

\* Context.Eval("var x = v") on Context c: the binding x of the guest
\* context at c.ctxPtr is set; the statement evaluates to undefined
GEvalSet(c, v) ==
    /\ c \in 1..Len(gl.ctxs)
    /\ LET out == EvalFile(Instance(1), 9, "undef", "its") IN
         /\ tab' = [tab EXCEPT ![1] = out.I.tab]
         /\ arena_ptr' = [arena_ptr EXCEPT ![1] = out.I.arena_ptr]
    /\ gl' = [gl EXCEPT !.globals[CtxPtrOf(c)] = v, !.own[c] = v,
                        !.last = [op |-> "set", c |-> c, res |-> "undef"]]
    /\ UNCHANGED <<progVars, hist, callbacks, nextFuncID, solo, rd, api, alast,
                   sio, fns, cb, jobs, moreVars>>

\* Context.Eval("x") on Context c: JS_Eval reads the binding x of the guest
\* context at c.ctxPtr, or throws a ReferenceError when there is none
GEvalGet(c) ==
    /\ c \in 1..Len(gl.ctxs)
    /\ LET res == IF gl.globals[CtxPtrOf(c)] = "undef" THEN "exc"
                  ELSE gl.globals[CtxPtrOf(c)]
           out == EvalFile(Instance(1), 1, res, "its")
       IN /\ tab' = [tab EXCEPT ![1] = out.I.tab]
          /\ arena_ptr' = [arena_ptr EXCEPT ![1] = out.I.arena_ptr]
          /\ gl' = [gl EXCEPT !.last = [op |-> "get", c |-> c, res |-> res]]
    /\ UNCHANGED <<progVars, hist, callbacks, nextFuncID, solo, rd, api, alast,
                   sio, fns, cb, jobs, moreVars>>

NextCtx ==
    \/ GNewContext
    \/ \E c \in 1..MaxCtx : (\E v \in JSVals : GEvalSet(c, v)) \/ GEvalGet(c)

SpecCtx == Init /\ [][NextCtx]_vars

\* ===================================================================
\* Isolation of the Contexts of one Runtime
\* ===================================================================
\* an evaluation in one Context leaves the bindings of the others as they
\* were
C26_SiblingStep ==
    \A c, d \in 1..Len(gl.ctxs) :
        (gl'.last # gl.last /\ gl'.last.c = c /\ d # c) =>
            gl'.globals[gl.ctxs[d]] = gl.globals[gl.ctxs[d]]

AfterEval_Drained(queue, new) == <<>>

AfterEval(queue, new) == queue \o new

\* qjs_execute_pending_jobs: `while ((ret = JS_ExecutePendingJob(rt, &pctx))
\* > 0) {}; return ret`.  JS_ExecutePendingJob gives 1 for a job that ran, 0
\* when no job is pending, a negative number for a job that failed.
RECURSIVE qjs_execute_pending_jobs(_, _)
qjs_execute_pending_jobs(queue, ran) ==
    IF queue = <<>> THEN [queue |-> queue, ran |-> ran, ret |-> 0]
    ELSE IF Head(queue) = "fail"
    THEN [queue |-> Tail(queue), ran |-> ran, ret |-> -1]
    ELSE qjs_execute_pending_jobs(Tail(queue), ran + 1)

\* Context.Eval of `result = 0; Promise.resolve(42).then(x => { result = x });
\* result`, the reactions scheduled being ones that run or ones that fail
JEval(new) ==
    /\ Len(jobs.queue) + Len(new) <= MaxJobs
    /\ LET out == EvalFile(Instance(1), 9, "z", "its")
           q == AfterEval(jobs.queue, new)
           ranNow == Len(jobs.queue) + Len(new) - Len(q)
       IN /\ tab' = [tab EXCEPT ![1] = out.I.tab]
          /\ arena_ptr' = [arena_ptr EXCEPT ![1] = out.I.arena_ptr]
          /\ jobs' = [queue |-> q,
                      result |-> IF ranNow > 0 THEN "a" ELSE "z",
                      by |-> IF ranNow > 0 THEN jobs.by \cup {"Eval"}
                             ELSE jobs.by,
                      last |-> [op |-> "Eval", n |-> Len(new), err |-> out.err,
                                ran |-> ranNow, left |-> Len(q),
                                failed |-> FALSE,
                                res |-> IF ranNow > 0 THEN "a" ELSE "z"]]
    /\ UNCHANGED <<progVars, hist, callbacks, nextFuncID, solo, rd, api, alast,
                   sio, fns, cb, gl, moreVars>>

\* Runtime.ExecutePendingJobs(): `n, err := r.bridge.ExecutePendingJobs(...);
\* return int(n), err`; err is the error of the call into the guest
JExec ==
    /\ LET out == qjs_execute_pending_jobs(jobs.queue, 0) IN
         jobs' = [queue |-> out.queue,
                  result |-> IF out.ran > 0 THEN "a" ELSE jobs.result,
                  by |-> IF out.ran > 0 THEN jobs.by \cup {"Exec"} ELSE jobs.by,
                  last |-> [op |-> "Exec", n |-> out.ret, err |-> FALSE,
                            ran |-> out.ran, left |-> Len(out.queue),
                            failed |-> out.ret < 0, res |-> "undef"]]
    /\ UNCHANGED <<progVars, tableVars, isoVars, rd, api, alast, sio, fns, cb,
                   gl, moreVars>>

NextJobs ==
    \/ \E k \in 1..2 : \E new \in [1..k -> {"ok", "fail"}] : JEval(new)
    \/ JExec

SpecJobs == Init /\ [][NextJobs]_vars

\* ===================================================================
\* Properties of the pending jobs
\* ===================================================================
\* C27: Runtime.ExecutePendingJobs runs all pending jobs and returns the
\* number of jobs it executed; when a job fails it returns a non-nil error.
C27_ExecutePendingJobs ==
    jobs.last.op = "Exec" =>
        /\ jobs.last.failed => jobs.last.err
        /\ ~jobs.last.failed =>
             /\ jobs.last.left = 0
             /\ jobs.last.n = jobs.last.ran

\* an Eval runs no job: the queue grows by the reactions the code schedules
C28_EvalStep ==
    (jobs'.last.op = "Eval" /\ jobs' # jobs) =>
        /\ jobs'.last.ran = 0
        /\ Len(jobs'.queue) = Len(jobs.queue) + jobs'.last.n

\* C28: Eval does not drain the pending-job queue.  A promise reaction
\* scheduled during an evaluation has not run when that Eval returns (the
\* value Eval returns reflects the state before the reaction), and it runs
\* only in a later ExecutePendingJobs call.
C28_EvalDoesNotDrain ==
    /\ [](jobs.last.op = "Eval" =>
            /\ jobs.last.res = "z"
            /\ jobs.result = "z"
            /\ jobs.queue # <<>>)
    /\ [](jobs.by \subseteq {"Exec"})
    /\ [][C28_EvalStep]_vars

\* evaluations scheduled reactions, and a later ExecutePendingJobs ran two
\* of them and emptied the queue
C28_Witness ==
    /\ jobs.last.op = "Exec"
    /\ jobs.last.ran = 2
    /\ jobs.result = "a"
    /\ jobs.queue = <<>>

\* ===================================================================
\* Bookkeeping of the gate (Runtime.mu, lockMu, lockHolder, lockDepth)
\* ===================================================================
\* lock() calls of goroutine g on Runtime r that returned, minus its unlock()
\* calls on r that started, over the frames stack[g][1..n]
RECURSIVE Unmatched(_, _, _)
Unmatched(g, r, n) ==
    IF n = 0 THEN 0
    ELSE Unmatched(g, r, n - 1) +
         (IF stack[g][n].kind = "op" /\ stack[g][n].r = r
             THEN stack[g][n].nl - stack[g][n].nu ELSE 0)

\* the four relations between the fields of the gate of r
Bookkeeping(r) ==
    /\ lockDepth[GateOf(r)] >= 0
    /\ lockHolder[GateOf(r)] # 0 <=> lockDepth[GateOf(r)] >= 1
    /\ lockHolder[GateOf(r)] # 0 => mu[GateOf(r)] # 0
    /\ \A g \in Goroutines :
          lockHolder[GateOf(r)] = GoId(g) =>
              /\ mu[GateOf(r)] = g
              /\ lockDepth[GateOf(r)] = Unmatched(g, r, Len(stack[g]))

LCall(g) ==
    /\ stack[g] = <<>>
    /\ \E r \in GateRuntimes :
          stack' = [stack EXCEPT ![g] = <<OpFrame(g, r)>>]
    /\ UNCHANGED <<gateVars, counter, hostCounter, opsLeft, incs, incErrs>>

\* the Lock() calls of lock() and unlock(): steps that wait for a sync.Mutex
LMutexStep(g) ==
    (LockMu1(g) \/ LockMu(g) \/ LockMu2(g) \/ UnlockMu1(g))
        /\ UNCHANGED <<tableVars, isoVars, rd, api, alast, sio, fns, extVars, moreVars>>

\* every other step of a call in progress: the rest of lock() and unlock(),
\* a source that throws, a bridge call that fails, a closure that calls
\* ctx.Eval, the returns
LRunStep(g) ==
    (\/ LockChk(g) \/ LockInc(g) \/ LockRelFast(g) \/ LockRel1(g)
     \/ LockSetH(g) \/ LockSetD(g) \/ LockRel2(g)
     \/ GuestThrow(g) \/ BridgeFail(g)
     \/ (GuestCallsHost(g) /\ incs' = incs)
     \/ ClosureEval(g) \/ ClosureReturn(g) \/ CheckException(g)
     \/ UnlockDec(g) \/ UnlockChk(g) \/ UnlockClr(g)
     \/ UnlockRel0(g) \/ UnlockMuU(g) \/ UnlockRelN(g) \/ Return(g))
        /\ UNCHANGED <<tableVars, isoVars, rd, api, alast, sio, fns, extVars, moreVars>>

NextLive ==
    \E g \in Goroutines :
        \/ LCall(g) /\ UNCHANGED <<tableVars, isoVars, rd, api, alast, sio, fns, extVars, moreVars>>
        \/ LMutexStep(g)
        \/ LRunStep(g)

\* a call in progress keeps running (every gate owner reaches its unlock());
\* sync.Mutex hands the mutex to a goroutine that keeps waiting for it
Fairness ==
    \A g \in Goroutines : WF_vars(LRunStep(g)) /\ SF_vars(LMutexStep(g))

SpecLive == Init /\ [][NextLive]_vars /\ Fairness

\* r.mu.Unlock() with goroutines blocked in r.mu.Lock(): the mutex is free
\* and no owner is recorded, so each of them can take it
C31_ReleaseStep ==
    \A g \in Goroutines :
        (AtPc(g, "op", "u_muU") /\ stack'[g] # stack[g]) =>
            \A h \in Goroutines :
                WaitsForMutex(h, Top(g).r) =>
                    /\ MuFree(Top(g).r)'
                    /\ lockHolder'[GateOf(Top(g).r)] = 0
                    /\ lockDepth'[GateOf(Top(g).r)] = 0

\* C31: no lost wakeup. When every owner of the gate reaches its matching
\* unlock() and the mutexes are fair, every goroutine blocked in lock()
\* eventually owns the gate; a release that brings the depth to zero while
\* goroutines wait leaves the mutex free for them.
C31_NoLostWakeup ==
    /\ \A g \in Goroutines :
          (AtPc(g, "op", "l_mu") \/ AtPc(g, "op", "l_mu1")) ~>
              (AtPc(g, "op", "guest") /\ lockHolder[GateOf(Top(g).r)] = GoId(g))
    /\ [][C31_ReleaseStep]_vars

\* the owner is about to release the mutex at depth zero while another
\* goroutine is blocked in r.mu.Lock()
C31_Witness ==
    \E g, h \in Goroutines :
        /\ AtPc(g, "op", "u_muU")
        /\ lockDepth[GateOf(Top(g).r)] = 0
        /\ WaitsForMutex(h, Top(g).r)

\* ===================================================================
\* The locks of the Bridge (callbackMu, mu) and the gate
\* ===================================================================
RUnlock_Keep(cm, g) == cm

\* hostCallGo: `b.callbackMu.RUnlock()` before `fn(ctxPtr, args)`
RUnlock(cm, g) == [cm EXCEPT !.r = @ \ {g}]

\* a goroutine calls Context.Function, Runtime.SetLogFunc or Context.Eval;
\* Function starts with RegisterGoFunc, the other two with lock()
KCall(g) ==
    /\ stack[g] = <<>>
    /\ opsLeft > 0
    /\ \E kind \in {"Function", "SetLogFunc", "Eval"} :
          stack' = [stack EXCEPT ![g] =
                      <<[OpFrame(g, 1) EXCEPT
                            !.src = kind,
                            !.pc = IF kind = "Function" THEN "r_lock" ELSE OpEntryPc]>>]
    /\ opsLeft' = opsLeft - 1
    /\ UNCHANGED <<gateVars, callbacks, nextFuncID, sync, fns>>

\* RegisterGoFunc: `b.callbackMu.Lock()`
KRegLock(g) ==
    /\ AtPc(g, "op", "r_lock")
    /\ sync.callbackMu.w = 0 /\ sync.callbackMu.r = {}
    /\ sync' = [sync EXCEPT !.callbackMu.w = g]
    /\ stack' = WithTop(g, [Top(g) EXCEPT !.pc = "r_body"])
    /\ UNCHANGED <<gateVars, callbacks, nextFuncID, opsLeft, fns>>

\* RegisterGoFunc: the id is taken and the closure stored, the deferred
\* Unlock() runs; Context.Function goes on to `c.runtime.lock()`
KRegDone(g) ==
    /\ AtPc(g, "op", "r_body")
    /\ \E reg \in {RegisterGoFunc(Instance(1))} :
          /\ callbacks' = [callbacks EXCEPT ![1] = reg.I.callbacks]
          /\ nextFuncID' = [nextFuncID EXCEPT ![1] = reg.I.nextFuncID]
          /\ stack' = WithTop(g, [Top(g) EXCEPT !.pc = OpEntryPc, !.tmp = reg.ret])
    /\ sync' = [sync EXCEPT !.callbackMu.w = 0]
    /\ UNCHANGED <<gateVars, opsLeft, fns>>

\* Context.Function under the gate: NewCFunction succeeds, or fails and
\* `c.runtime.bridge.UnregisterGoFunc(funcID)` is called
KNewCFunction(g) ==
    /\ AtPc(g, "op", "guest")
    /\ Top(g).src = "Function"
    /\ \/ /\ stack' = WithTop(g, [Top(g) EXCEPT !.pc = "u_mu", !.tmp = 0])
          /\ fns' = [fns EXCEPT !.refs = @ \cup {Top(g).tmp}]
       \/ /\ fns.fails < MaxFail
          /\ stack' = WithTop(g, [Top(g) EXCEPT !.pc = "x_lock"])
          /\ fns' = [fns EXCEPT !.fails = @ + 1]
    /\ UNCHANGED <<gateVars, callbacks, nextFuncID, opsLeft, sync>>

\* UnregisterGoFunc: `b.callbackMu.Lock()`
KUnregLock(g) ==
    /\ AtPc(g, "op", "x_lock")
    /\ sync.callbackMu.w = 0 /\ sync.callbackMu.r = {}
    /\ sync' = [sync EXCEPT !.callbackMu.w = g]
    /\ stack' = WithTop(g, [Top(g) EXCEPT !.pc = "x_body"])
    /\ UNCHANGED <<gateVars, callbacks, nextFuncID, opsLeft, fns>>

\* UnregisterGoFunc: `delete(b.callbacks, funcID)` and the deferred Unlock()
KUnregDone(g) ==
    /\ AtPc(g, "op", "x_body")
    /\ callbacks' = [callbacks EXCEPT
                       ![1] = UnregisterGoFunc(Instance(1), Top(g).tmp).callbacks]
    /\ sync' = [sync EXCEPT !.callbackMu.w = 0]
    /\ stack' = WithTop(g, [Top(g) EXCEPT !.pc = "u_mu", !.tmp = 0])
    /\ UNCHANGED <<gateVars, nextFuncID, opsLeft, fns>>

\* Runtime.SetLogFunc under the gate -> Bridge.SetLogFunc: `b.mu.Lock()`
KSetLogLock(g) ==
    /\ AtPc(g, "op", "guest")
    /\ Top(g).src = "SetLogFunc"
    /\ sync.mu = 0
    /\ sync' = [sync EXCEPT !.mu = g]
    /\ stack' = WithTop(g, [Top(g) EXCEPT !.pc = "s_body"])
    /\ UNCHANGED <<gateVars, callbacks, nextFuncID, opsLeft, fns>>

\* Bridge.SetLogFunc(nil): `b.logFunc = fn`, deferred Unlock()
KSetLogDone(g) ==
    /\ AtPc(g, "op", "s_body")
    /\ sync' = [sync EXCEPT !.mu = 0, !.logFunc = "nil"]
    /\ stack' = WithTop(g, [Top(g) EXCEPT !.pc = "u_mu"])
    /\ UNCHANGED <<gateVars, callbacks, nextFuncID, opsLeft, fns>>

\* the guest calls a function object made by Context.Function:
\* go_callback_wrapper -> host_call_go -> Bridge.hostCallGo(funcID)
KGuestCalls(g) ==
    /\ AtPc(g, "op", "guest")
    /\ Top(g).src = "Eval"
    /\ \E funcID \in fns.refs :
          stack' = Push(g, [CbFrame(Top(g).r, "fn") EXCEPT !.pc = "h_rlock", !.tmp = funcID],
                        [Top(g) EXCEPT !.pc = "in_cb"])
    /\ UNCHANGED <<gateVars, callbacks, nextFuncID, opsLeft, sync, fns>>

\* the guest calls console.log: host_log -> Bridge.hostLog
KGuestLogs(g) ==
    /\ AtPc(g, "op", "guest")
    /\ Top(g).src = "Eval"
    /\ stack' = Push(g, [CbFrame(Top(g).r, "log") EXCEPT !.pc = "g_lock"],
                     [Top(g) EXCEPT !.pc = "in_cb"])
    /\ UNCHANGED <<gateVars, callbacks, nextFuncID, opsLeft, sync, fns>>

\* hostCallGo: `b.callbackMu.RLock(); fn, ok := b.callbacks[funcID]`
KRLock(g) ==
    /\ AtPc(g, "cb", "h_rlock")
    /\ sync.callbackMu.w = 0
    /\ sync' = [sync EXCEPT !.callbackMu.r = @ \cup {g}]
    /\ stack' = WithTop(g, [Top(g) EXCEPT
                    !.pc = "h_runlock", !.tmp = 0,
                    !.res = IF Top(g).tmp \in callbacks[1] THEN "ok" ELSE "none"])
    /\ UNCHANGED <<gateVars, callbacks, nextFuncID, opsLeft, fns>>

\* hostCallGo: `b.callbackMu.RUnlock()`, then `if !ok { return undef }` or
\* `return fn(ctxPtr, args)`
KRUnlock(g) ==
    /\ AtPc(g, "cb", "h_runlock")
    /\ sync' = [sync EXCEPT !.callbackMu = RUnlock(@, g)]
    /\ stack' = WithTop(g, [Top(g) EXCEPT
                    !.pc = IF Top(g).res = "ok" THEN "cb_run" ELSE "cb_ret"])
    /\ UNCHANGED <<gateVars, callbacks, nextFuncID, opsLeft, fns>>

\* the registered closure returns a Value
KClosureReturns(g) ==
    /\ AtPc(g, "cb", "cb_run")
    /\ Top(g).src = "fn"
    /\ stack' = WithTop(g, [Top(g) EXCEPT !.pc = "cb_ret"])
    /\ UNCHANGED <<gateVars, callbacks, nextFuncID, opsLeft, sync, fns>>

\* the registered closure calls ctx.Function to register a further function
KClosureRegisters(g) ==
    /\ AtPc(g, "cb", "cb_run")
    /\ Top(g).src = "fn"
    /\ NestCount(g) < MaxNest
    /\ stack' = Push(g, [OpFrame(g, Top(g).r) EXCEPT !.src = "Function", !.pc = "r_lock"],
                     [Top(g) EXCEPT !.pc = "cb_wait", !.src = "nest"])
    /\ UNCHANGED <<gateVars, callbacks, nextFuncID, opsLeft, sync, fns>>

\* hostLog: `b.mu.Lock(); logFunc := b.logFunc`
KLogLock(g) ==
    /\ AtPc(g, "cb", "g_lock")
    /\ sync.mu = 0
    /\ sync' = [sync EXCEPT !.mu = g]
    /\ stack' = WithTop(g, [Top(g) EXCEPT !.pc = "g_unlock", !.res = sync.logFunc])
    /\ UNCHANGED <<gateVars, callbacks, nextFuncID, opsLeft, fns>>

\* hostLog: `b.mu.Unlock()`, then `if logFunc != nil { logFunc(...) }`
KLogUnlock(g) ==
    /\ AtPc(g, "cb", "g_unlock")
    /\ sync' = [sync EXCEPT !.mu = 0]
    /\ stack' = WithTop(g, [Top(g) EXCEPT
                    !.pc = IF Top(g).res # "nil" THEN "log_run" ELSE "cb_ret"])
    /\ UNCHANGED <<gateVars, callbacks, nextFuncID, opsLeft, fns>>

\* the log function returns
KLogRuns(g) ==
    /\ AtPc(g, "cb", "log_run")
    /\ stack' = WithTop(g, [Top(g) EXCEPT !.pc = "cb_ret"])
    /\ UNCHANGED <<gateVars, callbacks, nextFuncID, opsLeft, sync, fns>>

\* the steps of lock(), unlock() and of the returns, as in Spec
KGateStep(g) ==
    (\/ LockMu1(g) \/ LockChk(g) \/ LockInc(g) \/ LockRelFast(g) \/ LockRel1(g)
     \/ LockMu(g) \/ LockMu2(g) \/ LockSetH(g) \/ LockSetD(g) \/ LockRel2(g)
     \/ ClosureReturn(g) \/ CheckException(g)
     \/ UnlockMu1(g) \/ UnlockDec(g) \/ UnlockChk(g) \/ UnlockClr(g)
     \/ UnlockRel0(g) \/ UnlockMuU(g) \/ UnlockRelN(g) \/ Return(g))
        /\ UNCHANGED <<callbacks, nextFuncID, sync, fns>>

\* the steps of the Bridge
KBridgeStep(g) ==
    (\/ KRegLock(g) \/ KRegDone(g) \/ KNewCFunction(g) \/ KUnregLock(g)
     \/ KUnregDone(g) \/ KSetLogLock(g) \/ KSetLogDone(g)
     \/ KGuestCalls(g) \/ KGuestLogs(g) \/ KRLock(g) \/ KRUnlock(g)
     \/ KClosureReturns(g) \/ KClosureRegisters(g) \/ KLogLock(g)
     \/ KLogUnlock(g) \/ KLogRuns(g))
        /\ UNCHANGED <<counter, hostCounter, incs, incErrs>>

NextSync ==
    (\E g \in Goroutines :
        \/ KCall(g) /\ UNCHANGED <<counter, hostCounter, incs, incErrs>>
        \/ KGateStep(g)
        \/ KBridgeStep(g))
    /\ UNCHANGED <<tableVars, arena_ptr, solo, rd, api, alast, sio, extVars, hcg,
                   lateVars>>

SpecSync == Init /\ [][NextSync]_vars

\* g holds callbackMu (for writing or reading), Bridge.mu or lockMu
HoldsLock(g) ==
    \/ sync.callbackMu.w = g
    \/ g \in sync.callbackMu.r
    \/ sync.mu = g
    \/ \E r \in Runtimes : lockMu[GateOf(r)] = g

\* a registered closure or the log function runs on g
UserCodeRuns(g) == AtPc(g, "cb", "cb_run") \/ AtPc(g, "cb", "log_run")

\* positions at which a goroutine holds callbackMu or Bridge.mu: each is
\* left by a step that waits for nothing
HolderPcs == {"r_body", "x_body", "h_runlock", "s_body", "g_unlock"}

\* C32: callbackMu, Bridge.mu and lockMu are never held by a goroutine that
\* waits for the gate or runs user code (a registered closure, the log
\* function).  Whoever holds callbackMu or Bridge.mu is at a position it
\* leaves without waiting, so RegisterGoFunc and UnregisterGoFunc complete
\* while another goroutine holds the gate, a running closure can register
\* further functions, and while a call is in progress some goroutine can
\* take a step.
C32_LockIndependence ==
    /\ \A g \in Goroutines :
          ((\E r \in Runtimes : WaitsForMutex(g, r)) \/ UserCodeRuns(g))
              => ~HoldsLock(g)
    /\ \A g \in Goroutines :
          (sync.callbackMu.w = g \/ g \in sync.callbackMu.r \/ sync.mu = g)
              => (~Idle(g) /\ Top(g).pc \in HolderPcs)
    /\ (\E g \in Goroutines : ~Idle(g))
          => ENABLED (\E g \in Goroutines : KGateStep(g) \/ KBridgeStep(g))

\* a goroutine is inside RegisterGoFunc, holding callbackMu, while another
\* goroutine holds the gate and has a registered closure running
C32_Witness ==
    \E g, h \in Goroutines :
        /\ g # h
        /\ AtPc(g, "op", "r_body") /\ Len(stack[g]) = 1
        /\ lockHolder[GateOf(1)] = GoId(h)
        /\ \E i \in 1..Len(stack[h]) :
              stack[h][i].kind = "cb" /\ stack[h][i].pc \in {"cb_run", "cb_wait"}

\* ===================================================================
\* The argument words of host_call_go
\* ===================================================================
\* bytes of the linear memory of the guest: the arena lies inside it
MemSize == ArenaBase + ARENA_SIZE + ArenaBase

\* the bytes of a string in the arena
StrByte == Word - 1

\* the arena before anything was written: static memory is zero
ArenaZero == [o \in 0..(ARENA_SIZE - 1) |-> 0]

\* `arg_ptrs[i] = ...`: a uint32_t written little-endian at arena offset off
PutWord(mem, off, w) ==
    [o \in DOMAIN mem |->
        IF o = off THEN w ELSE IF o \in (off + 1)..(off + 3) THEN 0 ELSE mem[o]]

\* Bridge.WriteString: len bytes of the string and a NUL at arena offset off
PutString(mem, off, len) ==
    [o \in DOMAIN mem |->
        IF o \in off..(off + len - 1) THEN StrByte
        ELSE IF o = off + len THEN 0 ELSE mem[o]]

\* m.Memory().Read(addr, 4) and binary.LittleEndian.Uint32: not ok when the
\* four bytes do not lie inside the memory
ReadWord(mem, addr) ==
    IF addr + 4 > MemSize THEN [ok |-> FALSE, val |-> 0]
    ELSE LET byte(a) == IF a - ArenaBase \in DOMAIN mem THEN mem[a - ArenaBase] ELSE 0
         IN [ok |-> TRUE,
             val |-> IF byte(addr + 1) = 0 /\ byte(addr + 2) = 0 /\ byte(addr + 3) = 0
                        THEN byte(addr) ELSE StrByte]

\* hostCallGo: `args := make([]uint32, argc)` and the loop that reads
\* `argvPtr+uint32(i)*4`
ReadArgs(mem, argc, argvPtr) ==
    IF argc > 0 /\ argvPtr # 0
    THEN [ok |-> \A i \in 1..argc : ReadWord(mem, (argvPtr + 4 * (i - 1)) % Word).ok,
          args |-> [i \in 1..argc |-> ReadWord(mem, (argvPtr + 4 * (i - 1)) % Word).val]]
    ELSE [ok |-> TRUE, args |-> [i \in 1..argc |-> 0]]

ArgsOfCall_Late(atCall, atReturn) == atReturn

\* hostCallGo: `args[i] = binary.LittleEndian.Uint32(buf)` copies the word
\* into the Go slice that is passed to fn
ArgsOfCall(atCall, atReturn) == atCall

\* go_callback_wrapper: the loop `arg_ptrs[i] = store_jsvalue(...)` on the
\* block at arena offset off
RECURSIVE PutArgs(_, _, _, _)
PutArgs(I, mem, off, argv) ==
    IF argv = <<>> THEN [I |-> I, mem |-> mem, ptrs |-> <<>>]
    ELSE LET st == StoreIn(I, Head(argv))
             rest == PutArgs(st.I, PutWord(mem, off, st.ret), off + 4, Tail(argv))
         IN [I |-> rest.I, mem |-> rest.mem, ptrs |-> <<st.ret>> \o rest.ptrs]

\* a closure that makes strings with ctx.String (Bridge.NewString ->
\* WriteString, qjs_new_string) before it returns the last Value it made
RECURSIVE stringFn(_, _, _)
stringFn(I, mem, lens) ==
    IF lens = <<>> THEN [I |-> I, mem |-> mem, ret |-> 0]
    ELSE LET w == WriteString(I, Head(lens))
             st == StoreIn(w.I, "s")
             rest == stringFn(st.I, PutString(mem, (w.ret - ArenaBase) % Word, Head(lens)),
                              Tail(lens))
         IN [I |-> rest.I, mem |-> rest.mem,
             ret |-> IF Tail(lens) = <<>> THEN st.ret ELSE rest.ret]

\* Bridge.hostCallGo(funcID, argc, argvPtr) with the closure stringFn behind
\* bridgeFn; `args` is what the closure's argument Values hold when it returns
hostCallGo_Mem(I, mem, funcID, argc, argvPtr, lens) ==
    LET undef == StoreIn(I, "undef")
        got == ReadArgs(mem, argc, argvPtr)
        this == StoreIn(I, "undef")
        run == stringFn(this.I, mem, lens)
    IN IF funcID \notin I.callbacks
       THEN [I |-> undef.I, mem |-> mem, ret |-> undef.ret, calls |-> 0,
             ok |-> TRUE, args |-> <<>>]
       ELSE IF ~got.ok
       THEN [I |-> undef.I, mem |-> mem, ret |-> undef.ret, calls |-> 0,
             ok |-> FALSE, args |-> <<>>]
       ELSE [I |-> run.I, mem |-> run.mem,
             ret |-> IF lens = <<>> THEN this.ret ELSE run.ret, calls |-> 1,
             ok |-> TRUE,
             args |-> ArgsOfCall(got.args, ReadArgs(run.mem, argc, argvPtr).args)]

\* the strings the closure makes
LenLists == UNION {[1..n -> {ARENA_SIZE \div 2 - 1}] : n \in 0..2}

\* the guest calls a function object: go_callback_wrapper puts the argument
\* handles into an arena block and calls host_call_go
HInvoke(funcID, argv, lens) ==
    /\ funcID \in callbacks[1]
    /\ \E blk \in {IF Len(argv) > 0 THEN Alloc(Instance(1), (4 * Len(argv)) % Word)
                   ELSE [I |-> Instance(1), ret |-> 0, err |-> FALSE]} :
       \E put \in {PutArgs(blk.I, ArenaZero, (blk.ret - ArenaBase) % Word, argv)} :
       \E hc \in {hostCallGo_Mem(put.I, put.mem, funcID, Len(argv), blk.ret, lens)} :
          /\ tab' = [tab EXCEPT ![1] = hc.I.tab]
          /\ arena_ptr' = [arena_ptr EXCEPT ![1] = hc.I.arena_ptr]
          /\ hcg' = [op |-> "call", ptrs |-> put.ptrs, args |-> hc.args,
                     ok |-> hc.ok, calls |-> hc.calls, ret |-> hc.ret,
                     over |-> ReadArgs(hc.mem, Len(argv), blk.ret).args # put.ptrs]
    /\ UNCHANGED <<progVars, hist, callbacks, nextFuncID, solo, rd, api, alast,
                   sio, fns, extVars, sync, lateVars>>

\* host_call_go with an argument vector at an address of the guest's choice
HHostCall(funcID, argc, argvPtr) ==
    /\ funcID \in callbacks[1]
    /\ \E hc \in {hostCallGo_Mem(Instance(1), ArenaZero, funcID, argc, argvPtr, <<>>)} :
          /\ tab' = [tab EXCEPT ![1] = hc.I.tab]
          /\ hcg' = [op |-> "host", ptrs |-> <<>>, args |-> hc.args,
                     ok |-> hc.ok, calls |-> hc.calls, ret |-> hc.ret,
                     over |-> FALSE]
    /\ UNCHANGED <<progVars, hist, isoVars, rd, api, alast, sio, fns, extVars, sync, lateVars>>

\* Bridge.RegisterGoFunc of the closure
HRegister ==
    /\ callbacks[1] = {}
    /\ \E reg \in {RegisterGoFunc(Instance(1))} :
          /\ callbacks' = [callbacks EXCEPT ![1] = reg.I.callbacks]
          /\ nextFuncID' = [nextFuncID EXCEPT ![1] = reg.I.nextFuncID]
    /\ UNCHANGED <<progVars, tableVars, arena_ptr, solo, rd, api, alast, sio,
                   fns, extVars, sync, hcg, lateVars>>

\* addresses the guest can pass: in the arena, at the end of the memory,
\* past it
ArgvPtrs == {ArenaBase, MemSize - 4, MemSize - 3, MemSize}

NextArgs ==
    \/ HRegister
    \/ \E argv \in ArgLists, lens \in LenLists : HInvoke(1, argv, lens)
    \/ \E argc \in 1..MaxArgs, argvPtr \in ArgvPtrs : HHostCall(1, argc, argvPtr)

SpecArgs == Init /\ [][NextArgs]_vars

\* C33: hostCallGo reads all argc argument handles out of guest memory
\* before it invokes the closure: whatever the closure allocates in the
\* arena, a wraparound over the argument words included, its argument list
\* holds the handles the guest stored, in order.  If an argument word cannot
\* be read, the closure is not invoked and the handle returned resolves to
\* undefined.
C33_ArgsReadFirst ==
    /\ (hcg.op = "call" /\ hcg.calls = 1) => hcg.args = hcg.ptrs
    /\ hcg.op = "call" => hcg.ok /\ hcg.calls = 1
    /\ (hcg.op = "host" /\ ~hcg.ok) =>
          /\ hcg.calls = 0
          /\ load_jsvalue(tab[1], hcg.ret) = "undef"
    /\ (hcg.op = "host" /\ hcg.ok) => hcg.calls = 1

\* the closure ran with two argument handles, and its allocations wrapped
\* the arena and overwrote the words the handles were read from
C33_Witness ==
    /\ hcg.op = "call" /\ hcg.calls = 1 /\ hcg.over
    /\ Len(hcg.ptrs) = 2 /\ hcg.ptrs[1] # 0 /\ hcg.ptrs[2] # 0

\* C34: arena bounds. After any sequence of arena_alloc(size) calls, for
\* every size of a uint32_t, and of resets, the offset arena_ptr lies in
\* 0..ARENA_SIZE and is a multiple of 8, the rounded size is at least the
\* requested size, and the returned range [ptr, ptr + size) lies inside the
\* arena.
C34_ArenaBounds ==
    /\ 0 <= arena_ptr[1] /\ arena_ptr[1] <= ARENA_SIZE
    /\ arena_ptr[1] % 8 = 0
    /\ alast.op = "alloc" =>
          /\ (arena_ptr[1] - alast.ptr) % Word >= alast.size
          /\ alast.ptr + alast.size <= ARENA_SIZE

\* ------------------------------ several arena blocks in one operation
\* bytes of one argument word written by the host (`uint32(argc)*4`)
PtrSize == 4
\* sizeof(JSValue) of the 32-bit guest: one 64-bit word (engine header)
JSValueSize == 2 * PtrSize
\* len("<eval>"), the filename Context.Eval passes
EvalNameLen == 6
\* most arguments of one Value.Call
MaxArgc == 3

\* the bytes [off, off + len) of the arena
Block(off, len) == [off |-> off, len |-> len]

Overlap(b1, b2) ==
    /\ b1.len > 0 /\ b2.len > 0
    /\ b1.off < b2.off + b2.len
    /\ b2.off < b1.off + b1.len

\* Bridge.Eval(code, filename): WriteString(code), WriteString(filename) if
\* the name is not empty, then qjs_eval reads both
OEval(codeLen, fileLen) ==
    \E c \in {arena_alloc(arena_ptr[1], codeLen + 1)} :
    \E f \in {IF fileLen = 0 THEN [arena_ptr |-> c.arena_ptr, ptr |-> 0]
              ELSE arena_alloc(c.arena_ptr, fileLen + 1)} :
      /\ arena_ptr' = [arena_ptr EXCEPT ![1] = f.arena_ptr]
      /\ ops' = [op |-> "Eval",
                 blocks |-> <<Block(c.ptr, codeLen + 1)>> \o
                            (IF fileLen = 0 THEN <<>>
                             ELSE <<Block(f.ptr, fileLen + 1)>>)]
      /\ UNCHANGED <<progVars, tableVars, callbacks, nextFuncID, solo, rd, api,
                     alast, sio, fns, extVars, sync, hcg, own, xr, zv>>

\* Bridge.Call(args): Alloc(argc*4) for the handles, then qjs_call takes
\* arena_alloc(sizeof(JSValue) * argc) and reads the handles into it
OCall(argc) ==
    \E p \in {IF argc = 0 THEN [arena_ptr |-> arena_ptr[1], ptr |-> 0]
              ELSE arena_alloc(arena_ptr[1], argc * PtrSize)} :
    \E v \in {IF argc = 0 THEN p
              ELSE arena_alloc(p.arena_ptr, JSValueSize * argc)} :
      /\ arena_ptr' = [arena_ptr EXCEPT ![1] = v.arena_ptr]
      /\ ops' = [op |-> "Call",
                 blocks |-> IF argc = 0 THEN <<>>
                            ELSE <<Block(p.ptr, argc * PtrSize),
                                   Block(v.ptr, JSValueSize * argc)>>]
      /\ UNCHANGED <<progVars, tableVars, callbacks, nextFuncID, solo, rd, api,
                     alast, sio, fns, extVars, sync, hcg, own, xr, zv>>

NextOps ==
    \/ \E codeLen \in 0..(ARENA_SIZE - 1), fileLen \in {0, EvalNameLen} :
           OEval(codeLen, fileLen)
    \/ \E argc \in 0..MaxArgc : OCall(argc)

SpecOps == Init /\ [][NextOps]_vars

\* C35: within one bridge operation that makes several arena allocations
\* before the guest has consumed them (Eval: source then filename; Call: the
\* host-written handle table then the guest-side argument vector), a later
\* allocation never overlaps an earlier allocation of the same operation.
C35_NoOverlap ==
    \A i, j \in 1..Len(ops.blocks) :
        i < j => ~Overlap(ops.blocks[i], ops.blocks[j])

\* ===================================================================
\* Properties of handle ownership
\* ===================================================================
\* the slots of a table that hold a value: those not on the freelist
InUse(t) == (1..(MAX_JSVALUE_SLOTS - 1)) \ Freelist(init_jsvalue_slots(t))

\* C36: no handle is leaked by a public operation: the number of in-use
\* slots grows by at most one for an operation that returns a Value and by
\* zero for one that returns an error.  Here the operation is Context.Eval
\* of a call of a host closure.
C36_NoLeakStep ==
    (cb' # cb /\ cb'.op = "call") =>
        Cardinality(InUse(tab'[1])) <=
            Cardinality(InUse(tab[1])) + (IF cb'.err THEN 0 ELSE 1)

C36_NoLeak == [][C36_NoLeakStep]_vars

\* ------------------------------------- references handed to the guest
\* JS_FreeValue(v): a heap value loses one reference and is freed at zero
JS_FreeValue(rc, v) ==
    IF v \in Objs /\ rc[v] > 0 THEN [rc EXCEPT ![v] = @ - 1] ELSE rc

\* a release of a heap value that has been freed already
FreedTwice(rc, v) == v \in Objs /\ rc[v] = 0

\* whether value v can be used: it is no heap value or holds a reference
Live(rc, v) == v \notin Objs \/ rc[v] > 0

\* the sources evaluated: the guest calls the host closure f and returns,
\* discards or keeps in the global x what the call gave, or clears x
OwnCodes == {"f()", "f(); 0", "x = f(); 0", "x = undefined"}

\* the closures: `cached = ctx.String("s"); return cached`, `return cached`
OwnKinds == {"new", "cached"}

\* Context.Eval(code) with the host closure of the given kind registered
\* as f: Bridge.Eval writes the source and the file name; a call of f runs
\* go_callback_wrapper, bridgeFn (a handle for `this`) and the closure, and
\* evaluates to load_jsvalue(result_ptr); qjs_eval stores the result of
\* the source; checkException looks at it
WEval(kind, code) ==
    /\ (kind = "new" /\ code # "x = undefined") => own.made < MaxObj
    /\ code = "x = undefined" => kind = "cached"
    /\ \E calls \in {code # "x = undefined"} :
       \E file \in {WriteString(WriteString(Instance(1), Len(code)).I,
                                EvalNameLen)} :
       \E this \in {IF calls THEN StoreIn(file.I, "undef")
                    ELSE [I |-> file.I, ret |-> 0]} :
       \E res \in {IF ~calls THEN [I |-> this.I, ret |-> 0]
                   ELSE IF kind = "new"
                   THEN StoreIn(WriteString(this.I, 1).I,
                                ObjName(own.made + 1))
                   ELSE [I |-> this.I, ret |-> own.cached]} :
       \E rc1 \in {IF calls /\ kind = "new"
                   THEN [own.rc EXCEPT ![ObjName(own.made + 1)] = 1]
                   ELSE own.rc} :
       \E val \in {load_jsvalue(res.I.tab, res.ret)} :
       \E given \in {IF code = "f(); 0" THEN val
                     ELSE IF code = "f()" THEN "undef" ELSE own.x} :
       \E ev \in {StoreIn(res.I, IF code = "f()" THEN val
                                 ELSE IF calls THEN Int32Val(0)
                                 ELSE "undef")} :
       \E out \in {checkException(ev.I, ev.ret, "its")} :
          /\ tab' = [tab EXCEPT ![1] = out.I.tab]
          /\ arena_ptr' = [arena_ptr EXCEPT ![1] = out.I.arena_ptr]
          /\ own' = [rc |-> JS_FreeValue(rc1, given),
                     made |-> IF calls /\ kind = "new" THEN own.made + 1
                              ELSE own.made,
                     cached |-> IF calls /\ kind = "new" THEN res.ret
                                ELSE own.cached,
                     x |-> IF code = "x = f(); 0" THEN val
                           ELSE IF calls THEN own.x ELSE "undef",
                     twice |-> own.twice \/ FreedTwice(rc1, given),
                     last |-> IF calls
                              THEN [op |-> "return", h |-> res.ret,
                                    val |-> val, live |-> Live(rc1, val),
                                    out |-> "none"]
                              ELSE own.last]
    /\ UNCHANGED <<progVars, hist, callbacks, nextFuncID, solo, rd, api, alast,
                   sio, fns, extVars, sync, hcg, ops, xr, zv>>

\* the host reads the Value its closure kept: cached.String().  Reading a
\* freed value is undefined: it may give the old text, other bytes or trap
WUse ==
    /\ own.cached # 0
    /\ \E val \in {load_jsvalue(tab[1], own.cached)} :
       \E out \in (IF Live(own.rc, val) THEN {"text"}
                   ELSE {"text", "other", "trap"}) :
          own' = [own EXCEPT !.last = [op |-> "String", h |-> own.cached,
                                       val |-> val,
                                       live |-> Live(own.rc, val),
                                       out |-> out]]
    /\ UNCHANGED <<progVars, tableVars, isoVars, rd, api, alast, sio, fns,
                   extVars, sync, hcg, ops, xr, zv>>

NextOwn ==
    \/ \E kind \in OwnKinds, code \in OwnCodes : WEval(kind, code)
    \/ WUse

SpecOwn == Init /\ [][NextOwn]_vars

\* the in-use slots of instance 1 that hold heap value o
SlotsOf(o) == {h \in InUse(tab[1]) : load_jsvalue(tab[1], h) = o}

\* C37: single ownership of references: each in-use handle slot owns one
\* reference to its value for as long as it is in use.  Handing the handle
\* a host closure returned to the guest as the call result does not give
\* away the slot's only reference, so a Value a closure has returned still
\* denotes a live value when the host uses it or returns it again.
C37_SingleOwnership ==
    /\ \A o \in Objs :
           own.rc[o] >= Cardinality(SlotsOf(o)) + (IF own.x = o THEN 1 ELSE 0)
    /\ own.last.live
    /\ ~own.twice

\* ------------------------------------- Values passed between Runtimes
\* the Value{ctx, ptr} an operation on Runtime r returns
ValueOf(r, ptr) == [rt |-> r, ptr |-> ptr]

\* Context.Int32(v) on the Context of Runtime r
XInt32(r, v) ==
    \E out \in {NewInt32(Instance(BridgeOf(r)), v)} :
      /\ tab' = [tab EXCEPT ![BridgeOf(r)] = out.I.tab]
      /\ xr' = [xr EXCEPT !.vals = @ \cup {ValueOf(r, out.ret)},
                          !.last.op = "Int32"]
      /\ UNCHANGED <<progVars, hist, isoVars, rd, api, alast, sio, fns,
                     extVars, sync, hcg, ops, own, zv>>

\* Context.SetGlobal("p", val) on the Context of Runtime r:
\* GetGlobalObject stores the global object, SetProperty writes the name
\* and calls qjs_set_property(ctx, globalPtr, propPtr, val.ptr), which
\* loads both handles from the table of r's instance
XSetGlobal(r, val) ==
    \E glob \in {StoreIn(Instance(BridgeOf(r)), "global")} :
    \E prop \in {WriteString(glob.I, 1)} :
    \E obj \in {load_jsvalue(prop.I.tab, glob.ret)} :
    \E loaded \in {load_jsvalue(prop.I.tab, val.ptr)} :
      /\ tab' = [tab EXCEPT ![BridgeOf(r)] = prop.I.tab]
      /\ arena_ptr' = [arena_ptr EXCEPT ![BridgeOf(r)] = prop.I.arena_ptr]
      /\ xr' = [xr EXCEPT !.p[r] = IF obj = "global" THEN loaded ELSE @,
                          !.last = [op |-> "SetGlobal", rt |-> r, val |-> val,
                                    loaded |-> loaded,
                                    set |-> obj = "global",
                                    err |-> obj # "global"]]
      /\ UNCHANGED <<progVars, hist, callbacks, nextFuncID, solo, rd, api,
                     alast, sio, fns, extVars, sync, hcg, ops, own, zv>>

NextCross ==
    \/ \E r \in Runtimes : XInt32(r, Int32Val(r))
    \/ \E r \in Runtimes, val \in xr.vals : XSetGlobal(r, val)

SpecCross == Init /\ [][NextCross]_vars

\* C38: handles do not cross Runtimes: a Value issued by one Runtime that is
\* passed as an argument to an operation on a different Runtime is never
\* resolved against the second Runtime's handle table as if it were one of
\* that Runtime's own handles: the guest global is not set from it.
C38_NoCrossing ==
    (xr.last.op = "SetGlobal" /\ xr.last.val.rt # xr.last.rt) =>
        ~xr.last.set

\* --------------------------------------------- methods of a Value
\* the type predicates of Value
TypePredicates ==
    {"IsUndefined", "IsNull", "IsBool", "IsNumber", "IsString", "IsSymbol",
     "IsObject", "IsArray", "IsFunction", "IsError", "IsBigInt", "IsDate",
     "IsPromise"}

\* the methods that return an error
ErrorMethods ==
    {"Int32", "Int64", "Float64", "BigInt", "JSONStringify", "Bytes", "Get",
     "Set", "Delete", "GetIdx", "SetIdx", "Call", "CallMethod", "New"}

ValueMethods ==
    TypePredicates \cup ErrorMethods \cup
        {"String", "Typeof", "Bool", "Has", "Instanceof", "Len"}

NilCtx_Never(v) == FALSE

\* the first statement of every method of Value: `if v.ctx == nil`
NilCtx(v) == v.ctx = 0

\* what method m returns inside `if v.ctx == nil { ... }`, as Go prints it
NilReturn(m) ==
    IF m = "IsUndefined" THEN [ret |-> "true", err |-> ""]
    ELSE IF m \in TypePredicates \cup {"Bool", "Has", "Instanceof"}
    THEN [ret |-> "false", err |-> ""]
    ELSE IF m \in {"String", "Typeof"} THEN [ret |-> "undefined", err |-> ""]
    ELSE IF m = "Len" THEN [ret |-> "0", err |-> ""]
    ELSE IF m \in {"Int32", "Int64", "Float64", "BigInt"}
    THEN [ret |-> "0", err |-> "nil value"]
    ELSE IF m = "JSONStringify" THEN [ret |-> "", err |-> "nil value"]
    ELSE IF m = "Bytes" THEN [ret |-> "nil", err |-> "nil value"]
    ELSE IF m \in {"Get", "GetIdx", "Call", "CallMethod", "New"}
    THEN [ret |-> "Value{}", err |-> "nil value"]
    ELSE [ret |-> "none", err |-> "nil value"]

\* `result, _ := ctx.Eval(code)`: the goroutine starts an Eval
ZCall(g) == Call(g) /\ UNCHANGED zv

\* Eval returns: Value{ctx: c, ptr: valPtr} of checkException, or Value{}
\* with the error of bridge.Eval or of checkException
ZReturn(g) ==
    /\ AtPc(g, "op", "ret")
    /\ Top(g).src # "method"
    /\ Return(g)
    /\ zv' = [zv EXCEPT
                !.val[g] = IF Top(g).res = "ok" THEN [ctx |-> 1, ptr |-> 1]
                           ELSE ZeroValue,
                !.from[g] = IF Top(g).res = "ok" THEN "ok" ELSE "failed"]

\* the goroutine calls method m of the Value its Eval returned: the nil
\* check returns at once, else the method goes on to `v.ctx.runtime.lock()`
ZMethod(g, m) ==
    /\ stack[g] = <<>>
    /\ zv.from[g] # "var"
    /\ opsLeft > 0
    /\ opsLeft' = opsLeft - 1
    /\ IF NilCtx(zv.val[g])
       THEN /\ zv' = [zv EXCEPT !.last = [m |-> m, ret |-> NilReturn(m).ret,
                                          err |-> NilReturn(m).err,
                                          from |-> zv.from[g]]]
            /\ UNCHANGED stack
       ELSE /\ stack' = [stack EXCEPT
                           ![g] = <<[OpFrame(g, 1) EXCEPT !.src = "method"]>>]
            /\ UNCHANGED zv
    /\ UNCHANGED <<gateVars, counter, hostCounter, incs, incErrs>>

\* the bridge call of a method under the gate; `defer unlock()` follows
ZGuest(g) ==
    /\ AtPc(g, "op", "guest")
    /\ Top(g).src = "method"
    /\ stack' = WithTop(g, [Top(g) EXCEPT !.pc = "u_mu", !.res = "ok"])
    /\ UNCHANGED <<gateVars, counter, hostCounter, opsLeft, incs, incErrs, zv>>

\* a method returns to the goroutine
ZMethodReturn(g) ==
    /\ AtPc(g, "op", "ret")
    /\ Top(g).src = "method"
    /\ Return(g)
    /\ UNCHANGED zv

ZGateStep(g) ==
    (\/ LockMu1(g) \/ LockChk(g) \/ LockInc(g) \/ LockRelFast(g) \/ LockRel1(g)
     \/ LockMu(g) \/ LockMu2(g) \/ LockSetH(g) \/ LockSetD(g) \/ LockRel2(g)
     \/ CheckException(g)
     \/ UnlockMu1(g) \/ UnlockDec(g) \/ UnlockChk(g) \/ UnlockClr(g)
     \/ UnlockRel0(g) \/ UnlockMuU(g) \/ UnlockRelN(g))
        /\ UNCHANGED zv

\* JS_Eval of a literal: qjs_eval returns the handle of its value
ZGuestOk(g) ==
    /\ AtPc(g, "op", "guest")
    /\ stack' = WithTop(g, [Top(g) EXCEPT !.pc = "chk", !.src = "lit",
                                          !.res = "ok"])
    /\ UNCHANGED <<gateVars, counter, hostCounter, opsLeft, incs, incErrs>>

ZEvalStep(g) ==
    /\ AtPc(g, "op", "guest")
    /\ Top(g).src # "method"
    /\ (ZGuestOk(g) \/ GuestThrow(g) \/ BridgeFail(g))
    /\ UNCHANGED zv

ZStep(g) ==
    \/ ZCall(g)
    \/ \E m \in ValueMethods : ZMethod(g, m)
    \/ ZGateStep(g)
    \/ ZEvalStep(g)
    \/ ZGuest(g)
    \/ ZReturn(g)
    \/ ZMethodReturn(g)

NextZero ==
    (\E g \in Goroutines : ZStep(g))
        /\ UNCHANGED <<tableVars, isoVars, rd, api, alast, sio, fns, extVars,
                       sync, hcg, ops, own, xr>>

SpecZero == Init /\ [][NextZero]_vars

\* ===================================================================
\* Properties of the zero Value
\* ===================================================================
\* goroutine g is inside a method of its Value: past the nil check, on
\* its way to the gate, in the guest or releasing the gate
InMethod(g) == \E i \in 1..Len(stack[g]) : stack[g][i].src = "method"

\* C39: the zero Value, which every failed Eval returns, is inert: none of
\* its methods acquires the gate or calls the guest.  IsUndefined returns
\* true and every other type predicate returns false; String and Typeof
\* return "undefined"; Bool, Has and Instanceof return false and Len
\* returns 0; every method that returns an error returns the error
\* "nil value".
C39_ZeroValueInert ==
    /\ \A g \in Goroutines :
          /\ zv.from[g] = "failed" => zv.val[g] = ZeroValue
          /\ zv.val[g] = ZeroValue => ~InMethod(g)
    /\ zv.last.m # "none" =>
          /\ zv.last.m = "IsUndefined" => zv.last.ret = "true"
          /\ zv.last.m \in TypePredicates \ {"IsUndefined"} =>
                 zv.last.ret = "false"
          /\ zv.last.m \in {"String", "Typeof"} => zv.last.ret = "undefined"
          /\ zv.last.m \in {"Bool", "Has", "Instanceof"} =>
                 zv.last.ret = "false"
          /\ zv.last.m = "Len" => zv.last.ret = "0"
          /\ zv.last.err = IF zv.last.m \in ErrorMethods THEN "nil value"
                           ELSE ""

\* a method of the zero Value a failed Eval returned has returned its error
\* while another goroutine holds the gate and is in the guest
C39_Witness ==
    /\ zv.last.m = "Call" /\ zv.last.from = "failed"
    /\ zv.last.err = "nil value"
    /\ \E g, h \in Goroutines :
          /\ g # h
          /\ stack[g] = <<>> /\ zv.from[g] = "failed"
          /\ AtPc(h, "op", "guest")
          /\ lockHolder[1] = GoId(h)

====
